---- MODULE Spec2Model ----
(***************************************************************************)
(* Chain Sentinel risk scanner: the Solana scan (scanner.py scan_token),   *)
(* the EVM scan (evm_scanner.py scan_evm_token), their module scorers,     *)
(* the composite score and the risk labels.                                *)
(*                                                                         *)
(* Python floats are IEEE-754 binary64.  The scores are int() truncations  *)
(* of float sums, so the model carries a binary64 arithmetic (round to     *)
(* nearest, ties to even) over arbitrary-size naturals.  Only finite,      *)
(* non-negative, normal values occur in the scorers.                       *)
(***************************************************************************)
EXTENDS Integers, Sequences, FiniteSets, TLC

\* ------------------------------------------------------------------------
\* Arbitrary-size naturals: little-endian sequences of limbs below Base,
\* without high zero limbs (zero is the empty sequence).
\* ------------------------------------------------------------------------
LimbBits == 14

RECURSIVE Pow2(_)
Pow2(n) == IF n = 0 THEN 1 ELSE 2 * Pow2(n - 1)

Base == Pow2(LimbBits)

RECURSIVE NatOf(_)
NatOf(k) == IF k = 0 THEN << >> ELSE <<k % Base>> \o NatOf(k \div Base)

RECURSIVE Trim(_)
Trim(a) ==
  IF a = << >> THEN << >>
  ELSE IF a[Len(a)] = 0 THEN Trim(SubSeq(a, 1, Len(a) - 1))
  ELSE a

RECURSIVE NAddC(_, _, _)
NAddC(a, b, c) ==
  IF a = << >> /\ b = << >> THEN (IF c = 0 THEN << >> ELSE <<c>>)
  ELSE LET x == IF a = << >> THEN 0 ELSE Head(a)
           y == IF b = << >> THEN 0 ELSE Head(b)
           s == x + y + c
       IN  <<s % Base>> \o NAddC(IF a = << >> THEN << >> ELSE Tail(a),
                                  IF b = << >> THEN << >> ELSE Tail(b),
                                  s \div Base)

NAdd(a, b) == Trim(NAddC(a, b, 0))

RECURSIVE NScaleC(_, _, _)
NScaleC(a, d, c) ==
  IF a = << >> THEN (IF c = 0 THEN << >> ELSE <<c>>)
  ELSE LET s == Head(a) * d + c
       IN  <<s % Base>> \o NScaleC(Tail(a), d, s \div Base)

\* a * d for a limb-sized d
NScale(a, d) == Trim(NScaleC(a, d, 0))

RECURSIVE NMul(_, _)
NMul(a, b) ==
  IF a = << >> \/ b = << >> THEN << >>
  ELSE NAdd(NScale(b, Head(a)), Trim(<<0>> \o NMul(Tail(a), b)))

RECURSIVE BitLenSmall(_)
BitLenSmall(k) == IF k = 0 THEN 0 ELSE 1 + BitLenSmall(k \div 2)

NBitLen(a) ==
  IF a = << >> THEN 0
  ELSE LimbBits * (Len(a) - 1) + BitLenSmall(a[Len(a)])

\* a * 2^k
NShl(a, k) ==
  IF a = << >> THEN << >>
  ELSE [i \in 1..(k \div LimbBits) |-> 0] \o NScale(a, Pow2(k % LimbBits))

\* floor(a / 2^k)
NShr(a, k) ==
  LET w == k \div LimbBits
      r == k % LimbBits
      n == Len(a) - w
      at(i) == IF i <= Len(a) THEN a[i] ELSE 0
  IN  IF n <= 0 THEN << >>
      ELSE Trim([i \in 1..n |->
                   (at(i + w) \div Pow2(r))
                   + (at(i + w + 1) % Pow2(r)) * Pow2(LimbBits - r)])

RECURSIVE NLess(_, _)
NLess(a, b) ==
  IF Len(a) # Len(b) THEN Len(a) < Len(b)
  ELSE IF a = << >> THEN FALSE
  ELSE IF a[Len(a)] # b[Len(b)] THEN a[Len(a)] < b[Len(b)]
  ELSE NLess(SubSeq(a, 1, Len(a) - 1), SubSeq(b, 1, Len(b) - 1))

\* long division by a small d, from the top limb: <<quotient, remainder>>
RECURSIVE NDivSmallR(_, _, _)
NDivSmallR(a, d, r) ==
  IF a = << >> THEN <<<< >>, r>>
  ELSE LET n    == Len(a)
           cur  == r * Base + a[n]
           rest == NDivSmallR(SubSeq(a, 1, n - 1), d, cur % d)
       IN  <<rest[1] \o <<cur \div d>>, rest[2]>>

NDivSmall(a, d) ==
  LET qr == NDivSmallR(a, d, 0) IN <<Trim(qr[1]), qr[2]>>

RECURSIVE NToInt(_)
NToInt(a) == IF a = << >> THEN 0 ELSE Head(a) + Base * NToInt(Tail(a))

NOdd(a) == a # << >> /\ a[1] % 2 = 1

\* ------------------------------------------------------------------------
\* IEEE-754 binary64, non-negative finite values: [m, e] stands for m * 2^e
\* with m below 2^53 after every operation.
\* ------------------------------------------------------------------------
MantBits == 53

\* round m * 2^e to MantBits significant bits, nearest, ties to even
FRound(m, e) ==
  LET d == NBitLen(m) - MantBits
  IN  IF d <= 0 THEN [m |-> m, e |-> e]
      ELSE LET q      == NShr(m, d)
               guard  == NOdd(NShr(m, d - 1))
               sticky == NShl(NShr(m, d - 1), d - 1) # m
               up     == guard /\ (sticky \/ NOdd(q))
           IN  [m |-> IF up THEN NAdd(q, <<1>>) ELSE q, e |-> e + d]

\* float(k) for a Python int k >= 0
FromInt(k) == [m |-> NatOf(k), e |-> 0]

\* the double a decimal literal n/d denotes (d a power of ten up to 1000):
\* the quotient is taken to 70 fractional bits plus a sticky bit, then rounded
FromDecimal(n, d) ==
  LET qr == NDivSmall(NShl(NatOf(n), 70), d)
  IN  FRound(NAdd(NScale(qr[1], 2), IF qr[2] = 0 THEN << >> ELSE <<1>>), 0 - 71)

FMul(x, y) == FRound(NMul(x.m, y.m), x.e + y.e)

FAdd(x, y) ==
  LET e == IF x.e < y.e THEN x.e ELSE y.e
  IN  FRound(NAdd(NShl(x.m, x.e - e), NShl(y.m, y.e - e)), e)

FLess(x, y) ==
  LET e == IF x.e < y.e THEN x.e ELSE y.e
  IN  NLess(NShl(x.m, x.e - e), NShl(y.m, y.e - e))

\* Python min(x, y): y unless x < y ... min returns the first minimal item
FMin(x, y) == IF FLess(y, x) THEN y ELSE x

\* Python int(x): truncation toward zero
FTrunc(x) == IF x.e >= 0 THEN NToInt(NShl(x.m, x.e)) ELSE NToInt(NShr(x.m, 0 - x.e))

\* a - b for a >= b
RECURSIVE NSubB(_, _, _)
NSubB(a, b, c) ==
  IF a = << >> THEN << >>
  ELSE LET y == IF b = << >> THEN 0 ELSE Head(b)
           d == Head(a) - y - c
       IN  <<IF d < 0 THEN d + Base ELSE d>>
           \o NSubB(Tail(a), IF b = << >> THEN << >> ELSE Tail(b), IF d < 0 THEN 1 ELSE 0)

NSub(a, b) == Trim(NSubB(a, b, 0))

\* one quotient limb: floor(r / y) and the remainder, for r < y * Base and a
\* y whose top limb is at least Base / 2.  The estimate from the top limbs
\* is at most two too large.
NDivStep(r, y) ==
  LET n    == Len(y)
      at(i) == IF i <= Len(r) THEN r[i] ELSE 0
      est  == (at(n + 1) * Base + at(n)) \div y[n]
      q0   == IF est > Base - 1 THEN Base - 1 ELSE est
      p0   == NScale(y, q0)
      q1   == IF NLess(r, p0) THEN q0 - 1 ELSE q0
      p1   == IF NLess(r, p0) THEN NSub(p0, y) ELSE p0
      q2   == IF NLess(r, p1) THEN q1 - 1 ELSE q1
      p2   == IF NLess(r, p1) THEN NSub(p1, y) ELSE p1
  IN  <<q2, NSub(r, p2)>>

\* long division: the quotient limbs of weights Base^c .. Base^0 and the
\* last remainder, <<quotient, remainder>>
RECURSIVE NDivLimbs(_, _, _)
NDivLimbs(r, y, c) ==
  LET d == NDivStep(r, y)
  IN  IF c = 0 THEN <<NatOf(d[1]), d[2]>>
      ELSE LET rest == NDivLimbs(NShl(d[2], LimbBits), y, c - 1)
           IN  <<NAdd(NShl(NatOf(d[1]), c * LimbBits), rest[1]), rest[2]>>

\* x / y for y # 0: both mantissas are shifted to the same whole number of
\* limbs, the quotient is taken to at least MantBits + 2 bits and a sticky
\* bit, then rounded
FDiv(x, y) ==
  IF x.m = << >> THEN [m |-> << >>, e |-> 0]
  ELSE LET bx == NBitLen(x.m)
           by == NBitLen(y.m)
           bm == IF bx > by THEN bx ELSE by
           l  == LimbBits * ((bm + LimbBits - 1) \div LimbBits)
           sx == l - bx
           sy == l - by
           c  == (MantBits + 1 + LimbBits) \div LimbBits
           qr == NDivLimbs(NShl(x.m, sx), NShl(y.m, sy), c)
       IN  FRound(NAdd(NScale(qr[1], 2), IF qr[2] = << >> THEN << >> ELSE <<1>>),
                  (x.e - sx) - (y.e - sy) - c * LimbBits - 1)

\* ------------------------------------------------------------------------
\* Signed values: [neg, m, e] stands for -m * 2^e when neg, else m * 2^e.
\* ------------------------------------------------------------------------
Signed(neg, x) == [neg |-> neg /\ x.m # << >>, m |-> x.m, e |-> x.e]

\* float(k) for any Python int k
SFromInt(k) == IF k < 0 THEN Signed(TRUE, FromInt(0 - k)) ELSE Signed(FALSE, FromInt(k))

SMul(x, y) == Signed(x.neg # y.neg, FMul(x, y))

SDiv(x, y) == Signed(x.neg # y.neg, FDiv(x, y))

SAdd(x, y) ==
  IF x.neg = y.neg THEN Signed(x.neg, FAdd(x, y))
  ELSE LET e  == IF x.e < y.e THEN x.e ELSE y.e
           a  == NShl(x.m, x.e - e)
           b  == NShl(y.m, y.e - e)
       IN  IF NLess(a, b) THEN Signed(y.neg, FRound(NSub(b, a), e))
           ELSE Signed(x.neg, FRound(NSub(a, b), e))

SLess(x, y) ==
  IF x.neg /\ ~y.neg THEN TRUE
  ELSE IF ~x.neg /\ y.neg THEN FALSE
  ELSE IF x.neg THEN FLess(y, x)
  ELSE FLess(x, y)

SZero == Signed(FALSE, FromInt(0))

\* Python round(x, ndigits) in units of 10^-ndigits, scale = 10^ndigits: the
\* exact value of x is rounded to the nearest unit, ties to the even one
PyRound(x, scale) ==
  LET n == NScale(x.m, scale)
      r == IF x.e >= 0 THEN NToInt(NShl(n, x.e))
           ELSE LET d      == 0 - x.e
                    q      == NShr(n, d)
                    guard  == NOdd(NShr(n, d - 1))
                    sticky == NShl(NShr(n, d - 1), d - 1) # n
                    up     == guard /\ (sticky \/ NOdd(q))
                IN  NToInt(q) + (IF up THEN 1 ELSE 0)
  IN  IF x.neg THEN 0 - r ELSE r

\* ------------------------------------------------------------------------
\* Profiles.  A profile field is a number or the string "N/A"; NA stands for
\* "N/A".  Percentages are held in tenths (the adapters round them to one
\* decimal), top1_pct and gini in hundredths (rounded to two decimals), a
\* holder's pct in thousandths (rounded to three decimals), liquidity in
\* whole dollars, counts as naturals.
\* ------------------------------------------------------------------------
NA == 0 - 1

IsNumber(v) == v # NA

\* the float a percentage field holds
PctFloat(t) == FromDecimal(t, 10)

\* the float a gini field holds
GiniFloat(g) == FromDecimal(g, 100)

Min(a, b) == IF b < a THEN b ELSE a

_wallet_defaults == [cluster_pct |-> NA, fresh_wallet_pct |-> NA]

_lp_defaults == [lp_liquidity_usd |-> 0]

_supply_defaults == [top10_pct |-> NA, top1_pct |-> NA, gini |-> NA, holder_count |-> NA]

_mev_defaults == [mev_bots |-> NA, sandwich_count |-> NA]

_holder_defaults == [fresh_wallet_pct |-> NA, cluster_pct |-> NA]

\* ------------------------------------------------------------------------
\* Scoring (scanner.py)
\* ------------------------------------------------------------------------
F0_8 == FromDecimal(8, 10)
F0_5 == FromDecimal(5, 10)
F50  == FromInt(50)
F100 == FromInt(100)

\* score_wallets with the two factors exchanged
score_wallets_swapped(d) ==
  LET cp == d.cluster_pct
      fp == d.fresh_wallet_pct
      s0 == FromInt(0)
      s1 == IF IsNumber(cp) THEN FAdd(s0, FMin(FMul(PctFloat(cp), F0_5), F50)) ELSE s0
      s2 == IF IsNumber(fp) THEN FAdd(s1, FMin(FMul(PctFloat(fp), F0_8), F50)) ELSE s1
  IN  FTrunc(s2)

score_wallets(d) ==
  LET cp == d.cluster_pct
      fp == d.fresh_wallet_pct
      s0 == FromInt(0)
      s1 == IF IsNumber(cp) THEN FAdd(s0, FMin(FMul(PctFloat(cp), F0_8), F50)) ELSE s0
      s2 == IF IsNumber(fp) THEN FAdd(s1, FMin(FMul(PctFloat(fp), F0_5), F50)) ELSE s1
  IN  FTrunc(s2)

\* score_lp without the separate case for liquidity == 0
score_lp_no_zero_case(d) ==
  LET liq == d.lp_liquidity_usd
  IN  IF ~IsNumber(liq) THEN 50
      ELSE IF liq < 1000 THEN 90
      ELSE IF liq < 5000 THEN 70
      ELSE IF liq < 20000 THEN 40
      ELSE 20

score_lp(d) ==
  LET liq == d.lp_liquidity_usd
  IN  IF ~IsNumber(liq) THEN 50
      ELSE IF liq = 0 THEN 80
      ELSE IF liq < 1000 THEN 90
      ELSE IF liq < 5000 THEN 70
      ELSE IF liq < 20000 THEN 40
      ELSE 20

\* score_supply with inclusive thresholds
score_supply_inclusive(d) ==
  LET top10 == d.top10_pct
      gini  == d.gini
      s1 == IF IsNumber(top10)
            THEN (IF top10 >= 800 THEN 60
                  ELSE IF top10 >= 500 THEN 40
                  ELSE IF top10 >= 300 THEN 20
                  ELSE 0)
            ELSE 0
      s2 == IF IsNumber(gini)
            THEN s1 + FTrunc(FMul(GiniFloat(gini), FromInt(40)))
            ELSE s1
  IN  Min(s2, 100)

\* score_supply with the tiers added up instead of exclusive
score_supply_cumulative(d) ==
  LET top10 == d.top10_pct
      gini  == d.gini
      s1 == IF IsNumber(top10)
            THEN (IF top10 > 800 THEN 60 ELSE 0)
                 + (IF top10 > 500 THEN 40 ELSE 0)
                 + (IF top10 > 300 THEN 20 ELSE 0)
            ELSE 0
      s2 == IF IsNumber(gini)
            THEN s1 + FTrunc(FMul(GiniFloat(gini), FromInt(40)))
            ELSE s1
  IN  Min(s2, 100)

score_supply(d) ==
  LET top10 == d.top10_pct
      gini  == d.gini
      s1 == IF IsNumber(top10)
            THEN (IF top10 > 800 THEN 60
                  ELSE IF top10 > 500 THEN 40
                  ELSE IF top10 > 300 THEN 20
                  ELSE 0)
            ELSE 0
      s2 == IF IsNumber(gini)
            THEN s1 + FTrunc(FMul(GiniFloat(gini), FromInt(40)))
            ELSE s1
  IN  Min(s2, 100)

\* score_mev without the cap on the sandwich component
score_mev_uncapped(d) ==
  LET sc   == d.sandwich_count
      bots == d.mev_bots
      s1 == IF IsNumber(sc) THEN sc * 5 ELSE 0
      s2 == IF IsNumber(bots) THEN s1 + Min(bots * 20, 40) ELSE s1
  IN  Min(s2, 100)

score_mev(d) ==
  LET sc   == d.sandwich_count
      bots == d.mev_bots
      s1 == IF IsNumber(sc) THEN Min(sc * 5, 60) ELSE 0
      s2 == IF IsNumber(bots) THEN s1 + Min(bots * 20, 40) ELSE s1
  IN  Min(s2, 100)

\* risk_label with strict comparisons
risk_label_strict(score) ==
  IF score < 30 THEN "Low"
  ELSE IF score < 60 THEN "Medium"
  ELSE IF score < 80 THEN "High"
  ELSE "Critical"

risk_label(score) ==
  IF score <= 30 THEN "Low"
  ELSE IF score <= 60 THEN "Medium"
  ELSE IF score <= 80 THEN "High"
  ELSE "Critical"

\* the opener generate_summary picks from the report's risk_score
SummaryOpener(overall) ==
  IF overall <= 30 THEN "Relatively low risk signals."
  ELSE IF overall <= 60 THEN "Moderate risk - proceed with caution."
  ELSE IF overall <= 80 THEN "High risk - significant red flags."
  ELSE "Critical risk - multiple severe red flags."

W0_30 == FromDecimal(30, 100)
W0_25 == FromDecimal(25, 100)
W0_20 == FromDecimal(20, 100)

\* the composite rounded to nearest instead of truncated
CompositeRounded(ws, ls, ss, ms) ==
  FTrunc(FAdd(FAdd(FAdd(FAdd(FMul(FromInt(ws), W0_30),
                             FMul(FromInt(ls), W0_25)),
                        FMul(FromInt(ss), W0_25)),
                   FMul(FromInt(ms), W0_20)),
              F0_5))

\* the composite with the wallet weight repeated for the adversarial score
CompositeOverweight(ws, ls, ss, ms) ==
  FTrunc(FAdd(FAdd(FAdd(FMul(FromInt(ws), W0_30),
                        FMul(FromInt(ls), W0_25)),
                   FMul(FromInt(ss), W0_25)),
              FMul(FromInt(ms), W0_30)))

\* int(ws*0.30 + ls*0.25 + ss*0.25 + ms*0.20)
Composite(ws, ls, ss, ms) ==
  FTrunc(FAdd(FAdd(FAdd(FMul(FromInt(ws), W0_30),
                        FMul(FromInt(ls), W0_25)),
                   FMul(FromInt(ss), W0_25)),
              FMul(FromInt(ms), W0_20)))

\* ------------------------------------------------------------------------
\* Scoring (evm_scanner.py)
\* ------------------------------------------------------------------------
\* the EVM score_lp with inclusive thresholds
evm_score_lp_inclusive(d) ==
  LET liq == d.lp_liquidity_usd
  IN  IF ~IsNumber(liq) THEN 50
      ELSE IF liq = 0 THEN 80
      ELSE IF liq <= 1000 THEN 90
      ELSE IF liq <= 5000 THEN 70
      ELSE IF liq <= 20000 THEN 40
      ELSE 20

evm_score_lp(d) ==
  LET liq == d.lp_liquidity_usd
  IN  IF ~IsNumber(liq) THEN 50
      ELSE IF liq = 0 THEN 80
      ELSE IF liq < 1000 THEN 90
      ELSE IF liq < 5000 THEN 70
      ELSE IF liq < 20000 THEN 40
      ELSE 20

evm_score_supply(d) ==
  LET top10 == d.top10_pct
      gini  == d.gini
      s1 == IF IsNumber(top10)
            THEN (IF top10 > 800 THEN 60
                  ELSE IF top10 > 500 THEN 40
                  ELSE IF top10 > 300 THEN 20
                  ELSE 0)
            ELSE 0
      s2 == IF IsNumber(gini)
            THEN s1 + FTrunc(FMul(GiniFloat(gini), FromInt(40)))
            ELSE s1
  IN  Min(s2, 100)

score_holders(d) ==
  LET fp == d.fresh_wallet_pct
      cp == d.cluster_pct
      s0 == FromInt(0)
      s1 == IF IsNumber(fp) THEN FAdd(s0, FMin(FMul(PctFloat(fp), F0_5), F50)) ELSE s0
      s2 == IF IsNumber(cp) THEN FAdd(s1, FMin(FMul(PctFloat(cp), F0_8), F50)) ELSE s1
  IN  FTrunc(FMin(s2, F100))

evm_risk_label(score) ==
  IF score <= 30 THEN "Low"
  ELSE IF score <= 60 THEN "Medium"
  ELSE IF score <= 80 THEN "High"
  ELSE "Critical"

EvmSummaryOpener(overall) ==
  IF overall <= 30 THEN "Relatively low risk."
  ELSE IF overall <= 60 THEN "Moderate risk - proceed with caution."
  ELSE IF overall <= 80 THEN "High risk - significant red flags."
  ELSE "Critical risk - multiple severe red flags."

W0_35 == FromDecimal(35, 100)

\* the EVM composite with the Solana weights of liquidity and supply
EvmCompositeSolanaWeights(ls, ss, hs) ==
  FTrunc(FAdd(FAdd(FMul(FromInt(ls), W0_25),
                   FMul(FromInt(ss), W0_25)),
              FMul(FromInt(hs), W0_30)))

\* int(ls * 0.35 + ss * 0.35 + hs * 0.30)
EvmComposite(ls, ss, hs) ==
  FTrunc(FAdd(FAdd(FMul(FromInt(ls), W0_35),
                   FMul(FromInt(ss), W0_35)),
              FMul(FromInt(hs), W0_30)))

\* ------------------------------------------------------------------------
\* Inputs: what the providers can answer in one scan, and the arguments the
\* scorers are applied to.
\* ------------------------------------------------------------------------
Grid(n, top) == {(i * top) \div n : i \in 0..n}

ScanPctSteps == 1
ScanClusterPcts == Grid(ScanPctSteps, 1000) \cup {400}
ScanFreshPcts   == Grid(ScanPctSteps, 1000) \cup {700}
ScanLiquidity   == {0, 800, 3000, 15000, 100000}
ScanTop10Pcts   == {250, 850}
ScanTop1Pcts    == {1500}
ScanGinis       == {30, 60, 90}
ScanHolderCount == 20
ScanSandwiches  == {0, 5}
ScanBots        == {0, 2}

PctSteps == 20
ClusterPcts == Grid(PctSteps, 1000) \cup {1, 400, 624, 625, 626}
FreshPcts   == Grid(PctSteps, 1000) \cup {1, 700, 999}

LiqSteps == 10
MaxLiquidity == 30000
Liquidities ==
  Grid(LiqSteps, MaxLiquidity)
  \cup {0, 1, 500, 800, 999, 1000, 1001, 4999, 5000, 5001, 19999, 20000, 20001, 100000}

Top10Pcts == {0, 300, 301, 500, 501, 800, 801, 850, 1000}
Top1Pcts  == {0}
MaxGini == 100
Ginis == 0..MaxGini

MaxSandwichCount == 14
MaxBotWallets == 4

SubSteps == 4
WalletScores == Grid(SubSteps, 100) \cup {2, 6, 9}
LpScores     == Grid(SubSteps, 100) \cup {20, 90, 30, 31, 60, 61, 80, 81}
SupplyScores == Grid(SubSteps, 100) \cup {6, 10}
MevScores    == Grid(SubSteps, 100) \cup {1, 4, 9}

WalletProfiles(cs, fs) ==
  {_wallet_defaults} \cup {[cluster_pct |-> c, fresh_wallet_pct |-> f] : c \in cs, f \in fs}

HolderProfiles(cs, fs) ==
  {_holder_defaults} \cup {[fresh_wallet_pct |-> f, cluster_pct |-> c] : c \in cs, f \in fs}

LpProfiles(ls) == {_lp_defaults} \cup {[lp_liquidity_usd |-> l] : l \in ls}

SupplyProfiles(ts, t1s, gs) ==
  {_supply_defaults}
  \cup UNION {{[top10_pct |-> t, top1_pct |-> t1, gini |-> g,
                   holder_count |-> ScanHolderCount] :
                    t1 \in {x \in t1s : x <= 10 * t}, g \in gs} : t \in ts}

MevProfiles(ss, bs) ==
  {_mev_defaults} \cup {[mev_bots |-> b, sandwich_count |-> c] : c \in ss, b \in bs}

\* ------------------------------------------------------------------------
\* Supply concentration (scanner.py scan_supply, evm_scanner.py
\* get_evm_supply).  The provider's amounts are whole tokens.  sum() adds
\* left to right in binary64, as CPython does before its version 3.12.
\* ------------------------------------------------------------------------
RECURSIVE SortedDesc(_)
SortedDesc(a) ==
  IF a = << >> THEN << >>
  ELSE LET i == CHOOSE j \in 1..Len(a) : \A k \in 1..Len(a) : a[k] <= a[j]
       IN  <<a[i]>> \o SortedDesc(SubSeq(a, 1, i - 1) \o SubSeq(a, i + 1, Len(a)))

RECURSIVE InsertAscending(_, _)
InsertAscending(x, s) ==
  IF s = << >> THEN <<x>>
  ELSE IF SLess(x, Head(s)) THEN <<x>> \o s
  ELSE <<Head(s)>> \o InsertAscending(x, Tail(s))

\* sorted(shares)
RECURSIVE Sorted(_)
Sorted(shares) ==
  IF shares = << >> THEN << >>
  ELSE InsertAscending(shares[Len(shares)], Sorted(SubSeq(shares, 1, Len(shares) - 1)))

\* sum(xs) from the int 0
RECURSIVE FSum(_)
FSum(xs) ==
  IF xs = << >> THEN SZero
  ELSE SAdd(FSum(SubSeq(xs, 1, Len(xs) - 1)), xs[Len(xs)])

\* [a / total_supply for a in amounts]
Shares(as, total) == [i \in 1..Len(as) |-> SDiv(SFromInt(as[i]), SFromInt(total))]

\* compute_gini without sorted()
compute_gini_unsorted(shares) ==
  IF shares = << >> THEN SZero
  ELSE LET n      == Len(shares)
           s      == shares
           cumsum == FSum([i \in 1..n |-> SMul(SFromInt(2 * i - n - 1), s[i])])
           total  == FSum(s)
       IN  IF SLess(SZero, total) THEN SDiv(cumsum, SMul(SFromInt(n), total)) ELSE SZero

compute_gini(shares) ==
  IF shares = << >> THEN SZero
  ELSE LET n      == Len(shares)
           s      == Sorted(shares)
           cumsum == FSum([i \in 1..n |-> SMul(SFromInt(2 * i - n - 1), s[i])])
           total  == FSum(s)
       IN  IF SLess(SZero, total) THEN SDiv(cumsum, SMul(SFromInt(n), total)) ELSE SZero

_gini(shares) == compute_gini(shares)

Positive(as) == SelectSeq(as, LAMBDA a : a > 0)

First10(xs) == SubSeq(xs, 1, Min(Len(xs), 10))

S100 == SFromInt(100)

\* scan_supply once both provider calls have answered: total_supply is what
\* get_total_supply returned, value the uiAmount of the largest accounts
scan_supply_profile(value, total_supply) ==
  IF total_supply = 0 \/ value = << >> THEN _supply_defaults
  ELSE LET as == SortedDesc(Positive(value))
       IN  IF as = << >> THEN _supply_defaults
           ELSE LET shares == Shares(as, total_supply)
                IN  [top10_pct    |-> PyRound(SMul(FSum(First10(shares)), S100), 10),
                     top1_pct     |-> PyRound(SMul(shares[1], S100), 100),
                     gini         |-> PyRound(compute_gini(shares), 100),
                     holder_count |-> Len(as)]

RECURSIVE IntSum(_)
IntSum(as) == IF as = << >> THEN 0 ELSE Head(as) + IntSum(Tail(as))

\* get_evm_supply with a key and a non-empty holder list: quantities are the
\* TokenHolderQuantity fields, api_supply the tokensupply result (0 if missing)
get_evm_supply_profile(quantities, api_supply) ==
  LET total_supply == IF api_supply = 0 THEN IntSum(quantities) ELSE api_supply
  IN  IF total_supply = 0 THEN _supply_defaults
      ELSE LET shares == Shares(Positive(SortedDesc(quantities)), total_supply)
           IN  [top10_pct    |-> PyRound(SMul(FSum(First10(shares)), S100), 10),
                top1_pct     |-> IF shares # << >> THEN PyRound(SMul(shares[1], S100), 100)
                                 ELSE 0,
                gini         |-> PyRound(_gini(shares), 100),
                holder_count |-> Len(quantities)]

\* ------------------------------------------------------------------------
\* Wallet clusters (clusters.py).  Wallets and funders are strings; a holder
\* is [owner, ui_amount, pct] with ui_amount in whole tokens.
\* ------------------------------------------------------------------------
SYSTEM_PROGRAM == "11111111111111111111111111111111"

\* EXCLUDED_FUNDRS without the system program
EXCLUDED_FUNDRS_BUT_SYSTEM ==
  {"TokenkegQfeZyiNwAJbNbGKPFXCWuBvf9Ss623VQ5DA",
   "ATokenGPvbdGVxr1b2hvZbsiqW5xWH25efTNsLJe1bfE",
   "So11111111111111111111111111111111111111112",
   "ComputeBudget111111111111111111111111111111",
   "6EF8rrecthR5Dkzon8Nwu78hRvfCKubJ14M5uBEwF6P",
   "675kPX9MHTjS2zt1qfr1NYHuzeLXfQM9H24wFSUt1Mp8"}

EXCLUDED_FUNDRS ==
  {"11111111111111111111111111111111",
   "TokenkegQfeZyiNwAJbNbGKPFXCWuBvf9Ss623VQ5DA",
   "ATokenGPvbdGVxr1b2hvZbsiqW5xWH25efTNsLJe1bfE",
   "So11111111111111111111111111111111111111112",
   "ComputeBudget111111111111111111111111111111",
   "6EF8rrecthR5Dkzon8Nwu78hRvfCKubJ14M5uBEwF6P",
   "675kPX9MHTjS2zt1qfr1NYHuzeLXfQM9H24wFSUt1Mp8"}

None == "None"

Range(q) == {q[i] : i \in 1..Len(q)}

Front(q) == SubSeq(q, 1, Len(q) - 1)

Last(q) == q[Len(q)]

\* get_top_holders once its three calls have answered: accounts are the
\* largest accounts with the owner getMultipleAccounts resolved ("" when it
\* resolved none), supply is the uiAmount of getTokenSupply (0 when missing)
get_top_holders_list(accounts, supply) ==
  LET ts   == IF supply = 0 THEN 1 ELSE supply
      kept == SelectSeq(accounts, LAMBDA a : a.owner # "" /\ a.owner \notin EXCLUDED_FUNDRS)
  IN  [i \in 1..Len(kept) |->
         [owner     |-> kept[i].owner,
          ui_amount |-> kept[i].ui_amount,
          pct       |-> PyRound(SMul(SDiv(SFromInt(kept[i].ui_amount), SFromInt(ts)), S100),
                                1000)]]

\* get_funding_wallet once its calls have answered: candidates are the
\* accounts that sent SOL in the wallet's oldest transaction, then its
\* writable signers; the first that is not excluded is the funder
RECURSIVE get_funding_wallet_result(_, _)
get_funding_wallet_result(wallet, candidates) ==
  IF candidates = << >> THEN None
  ELSE IF Head(candidates) # wallet /\ Head(candidates) \notin EXCLUDED_FUNDRS
       THEN Head(candidates)
  ELSE get_funding_wallet_result(wallet, Tail(candidates))

KnownFunder(funder) == funder # None /\ funder \notin EXCLUDED_FUNDRS

\* Step 3: the dict holder_funder_map, as its keys in insertion order and
\* the entry of each key
RECURSIVE HolderFunderMap(_, _)
HolderFunderMap(hs, fr) ==
  IF hs = << >> THEN [keys |-> << >>, at |-> << >>]
  ELSE LET prev   == HolderFunderMap(Front(hs), Front(fr))
           holder == Last(hs)
           funder == Last(fr)
           owner  == holder.owner
       IN  IF KnownFunder(funder)
           THEN [keys |-> IF owner \in Range(prev.keys) THEN prev.keys
                          ELSE Append(prev.keys, owner),
                 at   |-> [o \in Range(prev.keys) \cup {owner} |->
                             IF o = owner
                             THEN [funder      |-> funder,
                                   balance_pct |-> holder.pct,
                                   ui_amount   |-> holder.ui_amount]
                             ELSE prev.at[o]]]
           ELSE prev

\* Step 4 without the comparison of funders: every funder is given every
\* holder of the dict
FundedHoldersOfAnyFunder(hfm, funder) ==
  LET own == hfm.keys
  IN  [i \in 1..Len(own) |->
         [wallet      |-> own[i],
          balance_pct |-> hfm.at[own[i]].balance_pct,
          ui_amount   |-> hfm.at[own[i]].ui_amount]]

\* Step 4: funder_to_holders[funder]
FundedHolders(hfm, funder) ==
  LET own == SelectSeq(hfm.keys, LAMBDA o : hfm.at[o].funder = funder)
  IN  [i \in 1..Len(own) |->
         [wallet      |-> own[i],
          balance_pct |-> hfm.at[own[i]].balance_pct,
          ui_amount   |-> hfm.at[own[i]].ui_amount]]

\* the keys of funder_to_holders in insertion order
RECURSIVE FunderOrder(_, _)
FunderOrder(hfm, keys) ==
  IF keys = << >> THEN << >>
  ELSE LET prev == FunderOrder(hfm, Front(keys))
           f    == hfm.at[Last(keys)].funder
       IN  IF f \in Range(prev) THEN prev ELSE Append(prev, f)

\* a group of two is taken for a cabal
IsCabalOfTwo(funded_holders) == Len(funded_holders) >= 2

\* a cabal = same funder funded 3+ holders
IsCabal(funded_holders) == Len(funded_holders) >= 3

PctOf(t) == Signed(FALSE, FromDecimal(t, 1000))

Cluster(funder, funded_holders) ==
  [funder              |-> funder,
   holders             |-> funded_holders,
   holder_count        |-> Len(funded_holders),
   combined_supply_pct |->
     PyRound(FSum([i \in 1..Len(funded_holders) |-> PctOf(funded_holders[i].balance_pct)]),
             100)]

\* clusters.sort(key = combined_supply_pct, reverse = True): stable
RECURSIVE InsertCluster(_, _)
InsertCluster(c, cs) ==
  IF cs = << >> THEN <<c>>
  ELSE IF c.combined_supply_pct > Head(cs).combined_supply_pct THEN <<c>> \o cs
  ELSE <<Head(cs)>> \o InsertCluster(c, Tail(cs))

RECURSIVE SortClusters(_)
SortClusters(cs) ==
  IF cs = << >> THEN << >> ELSE InsertCluster(Last(cs), SortClusters(Front(cs)))

Clusters(hfm) ==
  LET funders == FunderOrder(hfm, hfm.keys)
      cabals  == SelectSeq(funders, LAMBDA f : IsCabal(FundedHolders(hfm, f)))
  IN  SortClusters([i \in 1..Len(cabals) |-> Cluster(cabals[i], FundedHolders(hfm, cabals[i]))])

CabalHolders(cs) == UNION {{cs[i].holders[j].wallet : j \in 1..Len(cs[i].holders)} : i \in 1..Len(cs)}

ClusterPct(h) == Signed(FALSE, FromDecimal(h, 100))

OneAndAHalf == Signed(FALSE, FromDecimal(15, 10))

\* calculate_cabal_score with round() in place of int()
calculate_cabal_score_rounded(cs, hs, hfm) ==
  IF cs = << >> THEN 0
  ELSE LET cluster_count   == Len(cs)
           total_cabal_pct == FSum([i \in 1..Len(cs) |-> ClusterPct(cs[i].combined_supply_pct)])
           factor2         == Min(PyRound(SMul(total_cabal_pct, OneAndAHalf), 1), 40)
           cabal_ratio     == SDiv(SFromInt(Cardinality(CabalHolders(cs))),
                                   SFromInt(Len(hfm.keys)))
           factor3         == IF hfm.keys # << >>
                              THEN Min(PyRound(SMul(cabal_ratio, SFromInt(30)), 1), 30)
                              ELSE 0
       IN  Min(Min(cluster_count * 10, 30) + factor2 + factor3, 100)

calculate_cabal_score(cs, hs, hfm) ==
  IF cs = << >> THEN 0
  ELSE LET cluster_count   == Len(cs)
           total_cabal_pct == FSum([i \in 1..Len(cs) |-> ClusterPct(cs[i].combined_supply_pct)])
           factor2         == Min(FTrunc(SMul(total_cabal_pct, OneAndAHalf)), 40)
           cabal_ratio     == SDiv(SFromInt(Cardinality(CabalHolders(cs))),
                                   SFromInt(Len(hfm.keys)))
           factor3         == IF hfm.keys # << >>
                              THEN Min(FTrunc(SMul(cabal_ratio, SFromInt(30))), 30)
                              ELSE 0
       IN  Min(Min(cluster_count * 10, 30) + factor2 + factor3, 100)

\* build_graph: the nodes and edges of graph_data, without the display labels
RECURSIVE GraphOf(_, _, _, _)
GraphOf(hfm, cs, mint, keys) ==
  IF keys = << >>
  THEN [nodes |-> <<[id |-> mint, type |-> "mint"]>>, edges |-> << >>, seen_nodes |-> {mint}]
  ELSE LET prev   == GraphOf(hfm, cs, mint, Front(keys))
           holder == Last(keys)
           funder == hfm.at[holder].funder
           pct    == hfm.at[holder].balance_pct
           cabal_funders == {cs[i].funder : i \in 1..Len(cs)}
           n1     == IF funder \notin prev.seen_nodes
                     THEN Append(prev.nodes,
                                 [id       |-> funder,
                                  type     |-> IF funder \in cabal_funders THEN "cabal_funder"
                                               ELSE "funder",
                                  is_cabal |-> funder \in cabal_funders])
                     ELSE prev.nodes
           seen1  == prev.seen_nodes \cup {funder}
           n2     == IF holder \notin seen1
                     THEN Append(n1,
                                 [id          |-> holder,
                                  type        |-> IF holder \in CabalHolders(cs)
                                                  THEN "cabal_holder" ELSE "holder",
                                  balance_pct |-> pct,
                                  is_cabal    |-> holder \in CabalHolders(cs)])
                     ELSE n1
       IN  [nodes      |-> n2,
            edges      |-> prev.edges \o
                           <<[from |-> funder, to |-> holder, type |-> "funded", weight |-> pct],
                             [from |-> holder, to |-> mint, type |-> "holds", weight |-> pct]>>,
            seen_nodes |-> seen1 \cup {holder}]

build_graph(hfm, cs, mint) ==
  LET g == GraphOf(hfm, cs, mint, hfm.keys)
  IN  [nodes |-> g.nodes, edges |-> g.edges]

\* ------------------------------------------------------------------------
\* Deployer track record (scanner.py build_dev_report, evm_scanner.py
\* get_evm_dev_history).  A prior token is [market_cap, on_dex], the market
\* cap in whole dollars.
\* ------------------------------------------------------------------------
OnDex(ts) == SelectSeq(ts, LAMBDA t : t.on_dex)

Dead(ts) == SelectSeq(ts, LAMBDA t : ~t.on_dex)

\* build_dev_report(deployer, current_ca, tokens): the fields the rating
\* depends on; tokens come sorted by market cap, largest first
build_dev_report(ts) ==
  LET total      == Len(ts)
      on_dex     == OnDex(ts)
      dead       == Dead(ts)
      biggest_mc == IF on_dex # << >> THEN on_dex[1].market_cap ELSE 0
  IN  [token_count |-> total,
       biggest_mc  |-> biggest_mc,
       dead_count  |-> Len(dead),
       risk        |-> IF total = 0 THEN "No history found"
                       ELSE IF Len(dead) > Len(on_dex) /\ total > 2 THEN "Serial launcher"
                       ELSE IF biggest_mc > 1000000 THEN "Proven dev"
                       ELSE IF biggest_mc > 100000 THEN "Some track record"
                       ELSE "Low track record"]

\* get_dev_alpha from step 2 on, for a deployer that was found: without
\* prior tokens the dict returned has no rating
get_dev_alpha_report(ts) ==
  IF ts = << >> THEN [token_count |-> 0]
  ELSE build_dev_report(ts)

RECURSIVE MaxCap(_)
MaxCap(ts) ==
  IF ts = << >> THEN 0
  ELSE LET m == MaxCap(Tail(ts))
       IN  IF Head(ts).market_cap > m THEN Head(ts).market_cap ELSE m

SevenTenths == FromDecimal(7, 10)

\* get_evm_dev_history once the deployer and its other tokens are known
get_evm_dev_history_report(ts) ==
  LET total      == Len(ts)
      biggest_mc == MaxCap(ts)
      dead       == Len(SelectSeq(ts, LAMBDA t : t.market_cap = 0))
  IN  [token_count |-> total,
       biggest_mc  |-> biggest_mc,
       dead_count  |-> dead,
       risk        |-> IF biggest_mc >= 500000 THEN "Proven dev"
                       ELSE IF biggest_mc >= 100000 THEN "Some track record"
                       ELSE IF total = 0 THEN "First deployment"
                       ELSE IF FLess(FMul(FromInt(total), SevenTenths), FromInt(dead))
                            THEN "Serial deployer"
                       ELSE "Low track record"]

\* ------------------------------------------------------------------------
\* Tokens of a deployer (scanner.py get_deployed_tokens).  A discovered token
\* is [mint, timestamp]: the mint a positive number, 0 for an empty address,
\* the timestamp in seconds after the millisecond conversion, 0 when unknown.
\* ------------------------------------------------------------------------
\* 60 * 86400
LookbackSeconds == 5184000

\* filtered[:25]
ResultCap == 25

\* one strategy's loop: a token is taken when its mint is not empty and not
\* seen yet
RECURSIVE Discover(_, _)
Discover(ms, found) ==
  IF found = << >> THEN ms
  ELSE LET t == Head(found)
       IN  IF t.mint # 0 /\ \A i \in 1..Len(ms) : ms[i].mint # t.mint
           THEN Discover(Append(ms, t), Tail(found))
           ELSE Discover(ms, Tail(found))

MintsOf(ms) == {ms[i].mint : i \in 1..Len(ms)}

\* the window test without the clause for an unknown timestamp
InWindowKnown(t, c) == t.timestamp >= c

\* ts == 0 or ts >= cutoff
InWindow(t, c) == t.timestamp = 0 \/ t.timestamp >= c

\* the final loop: a second de-duplication and the window test
RECURSIVE Filter(_, _, _)
Filter(filtered, ms, c) ==
  IF ms = << >> THEN filtered
  ELSE LET t == Head(ms)
       IN  IF (\A i \in 1..Len(filtered) : filtered[i].mint # t.mint) /\ InWindow(t, c)
           THEN Filter(Append(filtered, t), Tail(ms), c)
           ELSE Filter(filtered, Tail(ms), c)

FirstN(q, n) == IF Len(q) <= n THEN q ELSE SubSeq(q, 1, n)

\* ------------------------------------------------------------------------
\* The rule-based summary (scanner.py generate_summary, evm_scanner.py
\* generate_evm_summary): the concerns (flags) and the advice, each named by
\* its text without the figures, and the sentences of the action part.
\* ------------------------------------------------------------------------
When(condition, text) == IF condition THEN <<text>> ELSE << >>

\* action = " ".join(advice) if advice else the standing sentence
ActionOf(advice) ==
  IF advice # << >> THEN advice ELSE <<"Always verify LP lock status before trading.">>

generate_summary(d) ==
  LET fresh   == d.fresh_wallet_pct
      cluster == d.cluster_pct
      liq     == d.lp_liquidity_usd
      top10   == d.top10_pct
      top1    == d.top1_pct
      sc      == d.sandwich_count
      bots    == d.mev_bots
      flags ==
        When(IsNumber(fresh) /\ fresh > 400, "high fresh wallet activity")
        \o When(IsNumber(cluster) /\ cluster > 300, "coordinated buying patterns detected")
        \o (IF liq < 1000 THEN <<"critically low liquidity - rug risk very high">>
            ELSE IF liq < 5000 THEN <<"low liquidity">>
            ELSE << >>)
        \o When(IsNumber(top1) /\ top1 > 2000, "single wallet holds of supply")
        \o When(IsNumber(top10) /\ top10 > 500, "top 10 wallets hold of supply")
        \o When(IsNumber(sc) /\ sc > 2, "sandwich attack patterns detected")
        \o When(IsNumber(bots) /\ bots > 0, "suspected bot wallet(s) active")
      advice ==
        (IF liq < 1000 THEN <<"Avoid entry until liquidity improves.">>
         ELSE IF liq < 5000 THEN <<"Use small position sizes.">>
         ELSE << >>)
        \o When(IsNumber(top1) /\ top1 > 2000, "Single-wallet dump risk is very high.")
        \o When(IsNumber(top10) /\ top10 > 500, "Watch top holder movements closely.")
        \o When(IsNumber(sc) /\ sc > 2, "Use MEV-protected RPC or higher slippage.")
  IN  [flags |-> flags, action |-> ActionOf(advice)]

generate_evm_summary(d) ==
  LET liq   == d.lp_liquidity_usd
      top10 == d.top10_pct
      top1  == d.top1_pct
      flags ==
        (IF liq < 1000 THEN <<"critically low liquidity">>
         ELSE IF liq < 5000 THEN <<"low liquidity">>
         ELSE << >>)
        \o When(IsNumber(top1) /\ top1 > 2000, "single wallet holds of supply")
        \o When(IsNumber(top10) /\ top10 > 500, "top 10 hold of supply")
      advice ==
        (IF liq < 1000 THEN <<"Avoid until liquidity improves.">>
         ELSE IF liq < 5000 THEN <<"Use small position sizes.">>
         ELSE << >>)
        \o When(IsNumber(top1) /\ top1 > 2000, "Single-wallet dump risk is very high.")
  IN  [flags |-> flags, action |-> ActionOf(advice)]

\* ------------------------------------------------------------------------
\* State
\* ------------------------------------------------------------------------
VARIABLES
  pc,           \* "idle", "gather", "done" for a scan; "call", "returned" for one scorer
  chain,        \* "solana", "ethereum" or "base"
  pending,      \* the gathered tasks that have not completed yet
  wallet_data, lp_data, supply_data, mev_data, holder_data,
  sub,          \* the sub-scores ws, ls, ss, ms, hs
  report,       \* the fields the scan adds to the combined report
  dev_data,     \* what the deployer-history branch of the gather returned
  value,        \* the amounts of the largest accounts, as the provider answered
  total_supply, \* the total supply, as the provider answered
  gini_value,   \* what compute_gini returned
  supply_answer, \* the kind of answer the provider gave to the holder-list call
  holders,      \* find_wallet_clusters: the list get_top_holders returned
  ledger,       \* the ledger's candidate funders of each holder wallet
  funding_results, \* the results of the gathered get_funding_wallet calls
  holder_funder_map, \* the dict of step 3: its keys in order and its entries
  clusters,     \* the list of clusters of step 4
  result,       \* what find_wallet_clusters or calculate_cabal_score returned
  tokens,       \* the deployer's prior tokens with their market data
  dev_report,   \* what get_dev_alpha or get_evm_dev_history returned for them
  answers,      \* what each source of the deployer would answer for the token
  queried,      \* the sources asked so far, in the order asked
  deployer,     \* the deployer found, None when the resolution gave up
  cutoff,       \* get_deployed_tokens: the start of the lookback window, in seconds
  seen,         \* get_deployed_tokens: the mints already taken
  token_mints,  \* get_deployed_tokens: the tokens discovered, in discovery order
  deployed,     \* the list get_deployed_tokens returned
  _seen_mints,  \* monitor.py: the mints the Solana monitor has taken
  _seen_evm,    \* clusters.py: the token addresses the EVM monitor has taken
  launches,     \* the launch tasks created so far, each with its position
  alerts,       \* the messages sent: how many per monitor, token and recipient
  summary,      \* the concerns and the advice of the summary text generated
  watchlist_file, \* watchlist.json: for each user and token whether it is watched, and its last_score
  data,         \* check_watchlist_alerts: the dict loaded, with the scores updated so far
  loaded,       \* check_watchlist_alerts: the dict as it was loaded
  todo,         \* check_watchlist_alerts: the watched tokens the loops have not reached yet
  rescans,      \* check_watchlist_alerts: the outcome of each re-scan of the run
  watch_alerts, \* check_watchlist_alerts: the alerts of the run
  changes       \* the last add or remove completed for each user and token since the load

supplyCall == <<value, total_supply, gini_value, supply_answer>>

clusterRun == <<holders, ledger, funding_results, holder_funder_map, clusters, result>>

\* the state of the runs outside the scan, the supply call and the cluster run
devRating == <<tokens, dev_report>>

deployerRun == <<answers, queried, deployer>>

discovery == <<cutoff, seen, token_mints, deployed>>

monitors == <<_seen_mints, _seen_evm, launches, alerts>>

watchRun == <<watchlist_file, data, loaded, todo, rescans, watch_alerts, changes>>

otherRuns == <<devRating, deployerRun, discovery, monitors, summary, watchRun>>

vars == <<pc, chain, pending, wallet_data, lp_data, supply_data, mev_data, holder_data, sub,
          report, dev_data, value, total_supply, gini_value, supply_answer, holders, ledger,
          funding_results, holder_funder_map, clusters, result, tokens, dev_report, answers, queried, deployer, cutoff, seen, token_mints, deployed,
          _seen_mints, _seen_evm, launches, alerts, summary,
          watchlist_file, data, loaded, todo, rescans, watch_alerts, changes>>

NotComputed == 0 - 1
Absent == "absent"

NoDevReport == [returned |-> FALSE]

NoDevRating ==
  /\ tokens = << >>
  /\ dev_report = NoDevReport

NoDeployerRun ==
  /\ answers = << >>
  /\ queried = << >>
  /\ deployer = Absent

NoDiscovery ==
  /\ cutoff = 0
  /\ seen = {}
  /\ token_mints = << >>
  /\ deployed = << >>

NoMonitors ==
  /\ _seen_mints = {}
  /\ _seen_evm = {}
  /\ launches = << >>
  /\ alerts = << >>

NoSummaryText == [returned |-> FALSE]

NoSummary == summary = NoSummaryText

NoWatchRun ==
  /\ watchlist_file = << >>
  /\ data = << >>
  /\ loaded = << >>
  /\ todo = {}
  /\ rescans = << >>
  /\ watch_alerts = {}
  /\ changes = << >>

NoOtherRuns ==
  /\ NoDevRating
  /\ NoDeployerRun
  /\ NoDiscovery
  /\ NoMonitors
  /\ NoSummary
  /\ NoWatchRun

NoSub == [ws |-> NotComputed, ls |-> NotComputed, ss |-> NotComputed,
          ms |-> NotComputed, hs |-> NotComputed]

NoDev == [state |-> Absent]

NoGini == [returned |-> FALSE]

NoSupplyCall ==
  /\ value = << >>
  /\ total_supply = 0
  /\ gini_value = NoGini
  /\ supply_answer = Absent

EmptyMap == [keys |-> << >>, at |-> << >>]

NoResult == [returned |-> FALSE]

NoClusterRun ==
  /\ holders = << >>
  /\ ledger = << >>
  /\ funding_results = << >>
  /\ holder_funder_map = EmptyMap
  /\ clusters = << >>
  /\ result = NoResult

NoReport == [risk_score |-> NotComputed, wallet_risk |-> Absent, lp_risk |-> Absent,
             supply_risk |-> Absent, mev_risk |-> Absent, holder_risk |-> Absent,
             opener |-> Absent]

EvmChains == {"ethereum", "base"}

Init ==
  /\ pc = "idle"
  /\ chain = "solana"
  /\ pending = {}
  /\ wallet_data = _wallet_defaults
  /\ lp_data = _lp_defaults
  /\ supply_data = _supply_defaults
  /\ mev_data = _mev_defaults
  /\ holder_data = _holder_defaults
  /\ sub = NoSub
  /\ report = NoReport
  /\ dev_data = NoDev
  /\ NoSupplyCall
  /\ NoOtherRuns
  /\ NoClusterRun

\* scan_token(ca): the four profile fetches are gathered
scan_token ==
  /\ pc = "idle"
  /\ pc' = "gather"
  /\ chain' = "solana"
  /\ pending' = {"scan_wallets", "scan_lp", "scan_supply", "scan_mev", "get_dev_alpha"}
  /\ UNCHANGED <<wallet_data, lp_data, supply_data, mev_data, holder_data, sub, report>>
  /\ UNCHANGED <<dev_data, supplyCall, clusterRun, otherRuns>>

\* scan_evm_token(ca, chain): the three profile fetches are gathered
scan_evm_token ==
  /\ pc = "idle"
  /\ pc' = "gather"
  /\ chain' \in EvmChains
  /\ pending' = {"get_evm_token_meta", "get_evm_supply", "get_evm_lp", "get_evm_holders",
                 "get_evm_dev_history"}
  /\ UNCHANGED <<wallet_data, lp_data, supply_data, mev_data, holder_data, sub, report>>
  /\ UNCHANGED <<dev_data, supplyCall, clusterRun, otherRuns>>

Complete(task) ==
  /\ pc = "gather"
  /\ task \in pending
  /\ pending' = pending \ {task}
  /\ UNCHANGED <<pc, chain, sub, report, value, total_supply, gini_value, clusterRun, otherRuns>>

scan_wallets ==
  /\ Complete("scan_wallets")
  /\ wallet_data' \in WalletProfiles(ScanClusterPcts, ScanFreshPcts)
  /\ UNCHANGED <<lp_data, supply_data, mev_data, holder_data, dev_data, supply_answer>>

scan_lp ==
  /\ Complete("scan_lp")
  /\ lp_data' \in LpProfiles(ScanLiquidity)
  /\ UNCHANGED <<wallet_data, supply_data, mev_data, holder_data, dev_data, supply_answer>>

\* What getTokenLargestAccounts (tokenholderlist on an EVM chain) answers:
\* an empty list, no usable answer (a bad status, an RPC error, a timeout, no
\* total supply, no API key), or a list of accounts.
HolderAnswers == {"empty", "unavailable", "accounts"}

\* the total supplies getTokenSupply answers before an empty holder list
ScanTotalSupplies == {1000, 1000000}


\* scan_supply returning a measured profile of zeros for an empty list
scan_supply_returns_zeros(answer) ==
  IF answer = "accounts" THEN SupplyProfiles(ScanTop10Pcts, ScanTop1Pcts, ScanGinis)
  ELSE {[top10_pct |-> 0, top1_pct |-> 0, gini |-> 0, holder_count |-> 0]}

\* the profiles scan_supply can return on an answer of this kind; a list of
\* accounts stands for the profile computed from it, or for the defaults when
\* no account holds a positive amount
scan_supply_returns(answer) ==
  IF answer = "empty" THEN {scan_supply_profile(<< >>, t) : t \in ScanTotalSupplies}
  ELSE IF answer = "unavailable" THEN {_supply_defaults}
  ELSE SupplyProfiles(ScanTop10Pcts, ScanTop1Pcts, ScanGinis)

scan_supply ==
  /\ Complete("scan_supply")
  /\ \E answer \in HolderAnswers :
       /\ supply_answer' = answer
       /\ supply_data' \in scan_supply_returns(answer)
  /\ UNCHANGED <<wallet_data, lp_data, mev_data, holder_data, dev_data>>

scan_mev ==
  /\ Complete("scan_mev")
  /\ mev_data' \in MevProfiles(ScanSandwiches, ScanBots)
  /\ UNCHANGED <<wallet_data, lp_data, supply_data, holder_data, dev_data, supply_answer>>

\* "< data range", the holder_count of _supply_from_rpc when it finds no
\* Transfer log
BelowDataRange == 0 - 2

\* _supply_from_rpc: the defaults when the RPC gives no total supply or fails,
\* the defaults with holder_count "< data range" when there is no Transfer
\* log, else the profile of the balances the logs add up to
_supply_from_rpc_returns ==
  {_supply_defaults, [_supply_defaults EXCEPT !.holder_count = BelowDataRange]}
  \cup SupplyProfiles(ScanTop10Pcts, ScanTop1Pcts, ScanGinis)

\* the profiles get_evm_supply can return on an answer of this kind; an empty
\* holder list makes it fall back to _supply_from_rpc
get_evm_supply_returns(answer) ==
  IF answer = "empty" THEN _supply_from_rpc_returns
  ELSE IF answer = "unavailable" THEN {_supply_defaults}
  ELSE SupplyProfiles(ScanTop10Pcts, ScanTop1Pcts, ScanGinis)

get_evm_supply ==
  /\ Complete("get_evm_supply")
  /\ \E answer \in HolderAnswers :
       /\ supply_answer' = answer
       /\ supply_data' \in get_evm_supply_returns(answer)
  /\ UNCHANGED <<wallet_data, lp_data, mev_data, holder_data, dev_data>>

get_evm_lp ==
  /\ Complete("get_evm_lp")
  /\ lp_data' \in LpProfiles(ScanLiquidity)
  /\ UNCHANGED <<wallet_data, supply_data, mev_data, holder_data, dev_data, supply_answer>>

get_evm_holders ==
  /\ Complete("get_evm_holders")
  /\ holder_data' \in HolderProfiles(ScanClusterPcts, ScanFreshPcts)
  /\ UNCHANGED <<wallet_data, lp_data, supply_data, mev_data, dev_data, supply_answer>>

\* get_evm_token_meta: both sources are tried inside try blocks and a dict is
\* always returned; the name and symbol are not held in the state
get_evm_token_meta ==
  /\ Complete("get_evm_token_meta")
  /\ UNCHANGED <<wallet_data, lp_data, supply_data, mev_data, holder_data, dev_data, supply_answer>>

\* get_evm_dev_history: the whole body is one try block that returns the
\* dict named empty on any exception
EvmDevAnswers == {"failed", "history"}

get_evm_dev_history ==
  /\ Complete("get_evm_dev_history")
  /\ \E answer \in EvmDevAnswers :
       dev_data' = IF answer = "failed" THEN [state |-> "empty"] ELSE [state |-> "report"]
  /\ UNCHANGED <<wallet_data, lp_data, supply_data, mev_data, holder_data, supply_answer>>

\* What the providers answer to the deployer-history branch of scan_token:
\* no deployer found (get_deployer returns None, also on every failure of its
\* calls), no launches found, launches with well-formed DexScreener pairs, or
\* launches with a pair whose fdv is not a number or whose volume is null.
DevAnswers == {"no_deployer", "no_tokens", "pairs", "malformed_pair"}

\* enrich_with_dexscreener reads the stored pairs after its try blocks:
\* float(pair.get("fdv") ...) and pair.get("volume", {}).get("h24", 0) raise on
\* a malformed pair
enrich_raises(answer) == answer = "malformed_pair"

\* get_dev_alpha under scan_token's gather.  The gather has no
\* return_exceptions, so an exception of the branch leaves scan_token.
get_dev_alpha ==
  /\ pc = "gather"
  /\ "get_dev_alpha" \in pending
  /\ \E answer \in DevAnswers :
       IF answer \notin {"no_deployer", "no_tokens"} /\ enrich_raises(answer)
       THEN /\ pc' = "raised"
            /\ UNCHANGED <<pending, dev_data>>
       ELSE /\ pc' = pc
            /\ pending' = pending \ {"get_dev_alpha"}
            /\ dev_data' = IF answer = "no_deployer" THEN [state |-> "error"]
                           ELSE IF answer = "no_tokens" THEN [state |-> "no_tokens"]
                           ELSE [state |-> "report"]
  /\ UNCHANGED <<chain, sub, report, supplyCall, clusterRun, otherRuns>>
  /\ UNCHANGED <<wallet_data, lp_data, supply_data, mev_data, holder_data>>

\* scan_token after the gather: sub-scores, composite, labels, summary
SolanaReport(ws, ls, ss, ms) ==
  LET risk_score == Composite(ws, ls, ss, ms)
  IN  [risk_score  |-> risk_score,
       wallet_risk |-> risk_label(ws),
       lp_risk     |-> risk_label(ls),
       supply_risk |-> risk_label(ss),
       mev_risk    |-> risk_label(ms),
       holder_risk |-> Absent,
       opener      |-> SummaryOpener(risk_score)]

scan_token_score ==
  /\ pc = "gather"
  /\ chain = "solana"
  /\ pending = {}
  /\ LET ws == score_wallets(wallet_data)
         ls == score_lp(lp_data)
         ss == score_supply(supply_data)
         ms == score_mev(mev_data)
     IN  /\ sub' = [ws |-> ws, ls |-> ls, ss |-> ss, ms |-> ms, hs |-> NotComputed]
         /\ report' = SolanaReport(ws, ls, ss, ms)
  /\ pc' = "done"
  /\ UNCHANGED <<chain, pending, wallet_data, lp_data, supply_data, mev_data, holder_data>>
  /\ UNCHANGED <<dev_data, supplyCall, clusterRun, otherRuns>>

\* scan_evm_token after the gather
EvmReport(ls, ss, hs) ==
  LET risk_score == EvmComposite(ls, ss, hs)
  IN  [risk_score  |-> risk_score,
       wallet_risk |-> evm_risk_label(hs),
       lp_risk     |-> evm_risk_label(ls),
       supply_risk |-> evm_risk_label(ss),
       mev_risk    |-> "N/A",
       holder_risk |-> evm_risk_label(hs),
       opener      |-> EvmSummaryOpener(risk_score)]

scan_evm_token_score ==
  /\ pc = "gather"
  /\ chain \in EvmChains
  /\ pending = {}
  /\ LET ls == evm_score_lp(lp_data)
         ss == evm_score_supply(supply_data)
         hs == score_holders(holder_data)
     IN  /\ sub' = [ws |-> NotComputed, ls |-> ls, ss |-> ss, ms |-> NotComputed, hs |-> hs]
         /\ report' = EvmReport(ls, ss, hs)
  /\ pc' = "done"
  /\ UNCHANGED <<chain, pending, wallet_data, lp_data, supply_data, mev_data, holder_data>>
  /\ UNCHANGED <<dev_data, supplyCall, clusterRun, otherRuns>>

Next ==
  \/ scan_token
  \/ scan_evm_token
  \/ scan_wallets
  \/ scan_lp
  \/ scan_supply
  \/ scan_mev
  \/ get_evm_supply
  \/ get_evm_lp
  \/ get_evm_holders
  \/ get_evm_token_meta
  \/ get_evm_dev_history
  \/ get_dev_alpha
  \/ scan_token_score
  \/ scan_evm_token_score

Spec == Init /\ [][Next]_vars

\* ------------------------------------------------------------------------
\* The scorers and the composite as functions: one call on one argument.
\* ------------------------------------------------------------------------
InitFn ==
  /\ pc = "call"
  /\ report = NoReport
  /\ dev_data = NoDev
  /\ NoSupplyCall
  /\ NoOtherRuns
  /\ NoClusterRun
  /\ \/ /\ pending = {"score_wallets"}
        /\ chain = "solana"
        /\ wallet_data \in WalletProfiles(ClusterPcts, FreshPcts)
        /\ holder_data = wallet_data
        /\ lp_data = _lp_defaults /\ supply_data = _supply_defaults
        /\ mev_data = _mev_defaults /\ sub = NoSub
     \/ /\ pending = {"score_lp"}
        /\ chain \in {"solana", "ethereum"}
        /\ lp_data \in LpProfiles(Liquidities)
        /\ wallet_data = _wallet_defaults /\ holder_data = _holder_defaults
        /\ supply_data = _supply_defaults /\ mev_data = _mev_defaults /\ sub = NoSub
     \/ /\ pending = {"score_supply"}
        /\ chain \in {"solana", "ethereum"}
        /\ supply_data \in SupplyProfiles(Top10Pcts, Top1Pcts, Ginis)
        /\ wallet_data = _wallet_defaults /\ holder_data = _holder_defaults
        /\ lp_data = _lp_defaults /\ mev_data = _mev_defaults /\ sub = NoSub
     \/ /\ pending = {"score_mev"}
        /\ chain = "solana"
        /\ mev_data \in MevProfiles(0..MaxSandwichCount, 0..MaxBotWallets)
        /\ wallet_data = _wallet_defaults /\ holder_data = _holder_defaults
        /\ lp_data = _lp_defaults /\ supply_data = _supply_defaults /\ sub = NoSub
     \/ /\ pending = {"composite"}
        /\ chain = "solana"
        /\ sub \in [ws : WalletScores, ls : LpScores, ss : SupplyScores,
                    ms : MevScores, hs : {NotComputed}]
        /\ wallet_data = _wallet_defaults /\ holder_data = _holder_defaults
        /\ lp_data = _lp_defaults /\ supply_data = _supply_defaults
        /\ mev_data = _mev_defaults
     \/ /\ pending = {"composite"}
        /\ chain = "ethereum"
        /\ sub \in [ws : {NotComputed}, ls : LpScores, ss : SupplyScores,
                    ms : {NotComputed}, hs : WalletScores]
        /\ wallet_data = _wallet_defaults /\ holder_data = _holder_defaults
        /\ lp_data = _lp_defaults /\ supply_data = _supply_defaults
        /\ mev_data = _mev_defaults

Return(fn) ==
  /\ pc = "call"
  /\ pending = {fn}
  /\ pc' = "returned"
  /\ pending' = {}
  /\ UNCHANGED <<chain, wallet_data, lp_data, supply_data, mev_data, holder_data>>
  /\ UNCHANGED <<dev_data, supplyCall, clusterRun, otherRuns>>

\* score_wallets and score_holders on the same profile
ApplyWalletScorers ==
  /\ Return("score_wallets")
  /\ sub' = [sub EXCEPT !.ws = score_wallets(wallet_data), !.hs = score_holders(holder_data)]
  /\ UNCHANGED report

\* score_lp, the copy of the scanned chain
ApplyScoreLp ==
  /\ Return("score_lp")
  /\ sub' = [sub EXCEPT !.ls = IF chain = "solana" THEN score_lp(lp_data)
                                ELSE evm_score_lp(lp_data)]
  /\ UNCHANGED report

\* score_supply, the copy of the scanned chain
ApplyScoreSupply ==
  /\ Return("score_supply")
  /\ sub' = [sub EXCEPT !.ss = IF chain = "solana" THEN score_supply(supply_data)
                                ELSE evm_score_supply(supply_data)]
  /\ UNCHANGED report

ApplyScoreMev ==
  /\ Return("score_mev")
  /\ sub' = [sub EXCEPT !.ms = score_mev(mev_data)]
  /\ UNCHANGED report

\* the composite, labels and opener of scan_token on given sub-scores
ApplyComposite ==
  /\ Return("composite")
  /\ chain = "solana"
  /\ report' = SolanaReport(sub.ws, sub.ls, sub.ss, sub.ms)
  /\ UNCHANGED sub

\* the composite, labels and opener of scan_evm_token on given sub-scores
ApplyEvmComposite ==
  /\ Return("composite")
  /\ chain \in EvmChains
  /\ report' = EvmReport(sub.ls, sub.ss, sub.hs)
  /\ UNCHANGED sub

NextFn ==
  \/ ApplyWalletScorers
  \/ ApplyScoreLp
  \/ ApplyScoreSupply
  \/ ApplyScoreMev
  \/ ApplyComposite
  \/ ApplyEvmComposite

SpecFn == InitFn /\ [][NextFn]_vars

\* ------------------------------------------------------------------------
\* compute_gini, scan_supply and get_evm_supply as functions of what the
\* provider answered: one call on one answer.
\* ------------------------------------------------------------------------
MaxAccounts == 5

AccountAmounts == {0, 1, 2}

TotalSupplies == {0, 3, 5}

AccountLists == UNION {[1..n -> AccountAmounts] : n \in 0..MaxAccounts}

InitSupply ==
  /\ pc = "call"
  /\ value \in AccountLists
  /\ total_supply \in TotalSupplies
  /\ \/ pending = {"compute_gini"} /\ chain \in {"solana", "ethereum"} /\ total_supply > 0
     \/ pending = {"scan_supply"} /\ chain = "solana"
     \/ pending = {"get_evm_supply"} /\ chain = "ethereum" /\ value # << >>
  /\ gini_value = NoGini
  /\ supply_answer = Absent
  /\ NoOtherRuns
  /\ wallet_data = _wallet_defaults /\ holder_data = _holder_defaults
  /\ lp_data = _lp_defaults /\ supply_data = _supply_defaults
  /\ mev_data = _mev_defaults /\ sub = NoSub /\ report = NoReport
  /\ dev_data = NoDev
  /\ NoClusterRun

ReturnSupply(fn) ==
  /\ pc = "call"
  /\ pending = {fn}
  /\ pc' = "returned"
  /\ pending' = {}
  /\ UNCHANGED <<chain, wallet_data, lp_data, mev_data, holder_data, sub, report>>
  /\ UNCHANGED <<dev_data, value, total_supply, supply_answer, clusterRun, otherRuns>>

\* compute_gini (the copy _gini on an EVM chain) on the shares of the amounts
\* as given
ApplyComputeGini ==
  /\ ReturnSupply("compute_gini")
  /\ gini_value' = IF chain = "solana" THEN compute_gini(Shares(value, total_supply))
                   ELSE _gini(Shares(value, total_supply))
  /\ UNCHANGED supply_data

ApplyScanSupply ==
  /\ ReturnSupply("scan_supply")
  /\ supply_data' = scan_supply_profile(value, total_supply)
  /\ UNCHANGED gini_value

ApplyGetEvmSupply ==
  /\ ReturnSupply("get_evm_supply")
  /\ supply_data' = get_evm_supply_profile(value, total_supply)
  /\ UNCHANGED gini_value

NextSupply ==
  \/ ApplyComputeGini
  \/ ApplyScanSupply
  \/ ApplyGetEvmSupply

SpecSupply == InitSupply /\ [][NextSupply]_vars

\* ------------------------------------------------------------------------
\* find_wallet_clusters: one run against one token.  The top-holder fetch
\* answers, then one get_funding_wallet call per holder is gathered and the
\* calls complete in any order, then the holders are grouped by funder.
\* ------------------------------------------------------------------------
MaxHolders == 5

MINT == "MintAddr"

Wallets == <<"h01", "h02", "h03", "h04", "h05", "h06", "h07", "h08",
             "h09", "h10", "h11", "h12", "h13", "h14", "h15", "h16">>

RAYDIUM == "675kPX9MHTjS2zt1qfr1NYHuzeLXfQM9H24wFSUt1Mp8"

\* the i-th largest account holds 60 - 7 i tokens of a supply of 1000
TopHolderSupplies == {1000}

AccountOf(n, shape, i) ==
  [owner     |-> IF shape = "infrastructure" /\ i = 1 THEN RAYDIUM
                 ELSE IF shape = "two_accounts" /\ i = n THEN Wallets[1]
                 ELSE Wallets[i],
   ui_amount |-> 60 - 7 * i]

\* what getTokenLargestAccounts and getMultipleAccounts answer: n accounts of
\* n owners, or the last account owned by the first owner again, or the
\* first account owned by the Raydium authority
TopHolderAnswers ==
  {[i \in 1..n |-> AccountOf(n, "distinct", i)] : n \in 0..MaxHolders}
  \cup {[i \in 1..n |-> AccountOf(n, "two_accounts", i)] : n \in 2..MaxHolders}
  \cup {[i \in 1..n |-> AccountOf(n, "infrastructure", i)] : n \in 1..MaxHolders}

\* what the oldest transaction of a wallet shows: nothing (or the lookup
\* fails), one sender, or the system program and the wallet itself before
\* the sender
LedgerEntries(wallet) ==
  {<< >>, <<"FunderF">>, <<SYSTEM_PROGRAM, wallet, "FunderG">>}

Ledgers(hs) ==
  {l \in [1..Len(hs) -> UNION {LedgerEntries(hs[i].owner) : i \in 1..Len(hs)}] :
     /\ \A i \in 1..Len(hs) : l[i] \in LedgerEntries(hs[i].owner)
     /\ \A i, j \in 1..Len(hs) :
          hs[i].owner = hs[j].owner => l[i] = l[j] \/ l[i] = << >> \/ l[j] = << >>}

InitCluster ==
  /\ pc = "start"
  /\ chain = "solana"
  /\ pending = {}
  /\ wallet_data = _wallet_defaults /\ holder_data = _holder_defaults
  /\ lp_data = _lp_defaults /\ supply_data = _supply_defaults
  /\ mev_data = _mev_defaults /\ sub = NoSub /\ report = NoReport
  /\ dev_data = NoDev
  /\ NoSupplyCall
  /\ NoOtherRuns
  /\ NoClusterRun

ClusterFrame ==
  UNCHANGED <<chain, wallet_data, lp_data, supply_data, mev_data, holder_data, sub, report,
              dev_data, supplyCall, otherRuns>>

\* "if not holders" is never taken
NoHoldersIgnored(hs) == FALSE

\* "if not holders"
NoHolders(hs) == hs = << >>

CouldNotFetch == [error |-> "Could not fetch holders for this token."]

\* Step 1, and the start of step 2.  A failed fetch makes get_top_holders
\* return the empty list.
get_top_holders ==
  /\ pc = "start"
  /\ \E failed \in BOOLEAN, answer \in TopHolderAnswers, supply \in TopHolderSupplies :
       holders' = IF failed THEN << >> ELSE get_top_holders_list(answer, supply)
  /\ IF NoHolders(holders')
     THEN /\ pc' = "done"
          /\ result' = CouldNotFetch
          /\ UNCHANGED <<pending, ledger, funding_results>>
     ELSE /\ pc' = "lookups"
          /\ pending' = 1..Len(holders')
          /\ ledger' \in Ledgers(holders')
          /\ funding_results' = [i \in 1..Len(holders') |-> None]
          /\ UNCHANGED result
  /\ UNCHANGED <<holder_funder_map, clusters>>
  /\ ClusterFrame

\* one of the gathered lookups completes; gather keeps its result at the
\* position of its holder
get_funding_wallet ==
  /\ pc = "lookups"
  /\ \E i \in pending :
       /\ funding_results' =
            [funding_results EXCEPT ![i] = get_funding_wallet_result(holders[i].owner, ledger[i])]
       /\ pending' = pending \ {i}
  /\ UNCHANGED <<pc, holders, ledger, holder_funder_map, clusters, result>>
  /\ ClusterFrame

\* the gather returns as soon as it was started
GatherStarted(p) == TRUE

\* asyncio.gather returns when every lookup has completed
GatherComplete(p) == p = {}

ClusterResult(hs, hfm, cs) ==
  [mint                      |-> MINT,
   total_holders_scanned     |-> Len(hs),
   holders_with_known_funder |-> Len(hfm.keys),
   clusters                  |-> cs,
   cluster_count             |-> Len(cs),
   cabal_probability         |-> calculate_cabal_score(cs, hs, hfm),
   holder_funder_map         |-> hfm,
   graph                     |-> build_graph(hfm, cs, MINT)]

\* Steps 3 to 6 and the return
group_by_funder ==
  /\ pc = "lookups"
  /\ GatherComplete(pending)
  /\ holder_funder_map' = HolderFunderMap(holders, funding_results)
  /\ clusters' = Clusters(holder_funder_map')
  /\ result' = ClusterResult(holders, holder_funder_map', clusters')
  /\ pc' = "done"
  /\ UNCHANGED <<pending, holders, ledger, funding_results>>
  /\ ClusterFrame

NextCluster ==
  \/ get_top_holders
  \/ get_funding_wallet
  \/ group_by_funder

SpecCluster == InitCluster /\ [][NextCluster]_vars

\* ------------------------------------------------------------------------
\* calculate_cabal_score as a function of the clusters and the dict that
\* find_wallet_clusters hands it: one call on one list of clusters.
\* ------------------------------------------------------------------------
MaxClusters == 3

Funders == <<"FunderF", "FunderG", "FunderH", "FunderI", "FunderJ">>

\* the share of the largest holder of a cluster, in thousandths of a percent;
\* its two other holders have 0.01 % each
TopShares == {470, 670, 800, 5080, 26980}

\* the number of holders with a known funder outside every cluster
LoneHolders == {0, 1, 4}

FundedBy(j, top) ==
  [i \in 1..3 |-> [wallet      |-> Wallets[3 * (j - 1) + i],
                   balance_pct |-> IF i = 1 THEN top ELSE 10,
                   ui_amount   |-> IF i = 1 THEN top \div 100 ELSE 0]]

ClustersOf(tops) ==
  SortClusters([j \in 1..Len(tops) |-> Cluster(Funders[j], FundedBy(j, tops[j]))])

\* the dict that holds the holders of the clusters and then the lone holders
MapOf(tops, lone) ==
  LET n    == 3 * Len(tops) + lone
      keys == [i \in 1..n |-> Wallets[i]]
  IN  [keys |-> keys,
       at   |-> [o \in Range(keys) |->
                   LET i == CHOOSE k \in 1..n : keys[k] = o
                       j == (i - 1) \div 3 + 1
                   IN  IF i <= 3 * Len(tops)
                       THEN [funder      |-> Funders[j],
                             balance_pct |-> FundedBy(j, tops[j])[i - 3 * (j - 1)].balance_pct,
                             ui_amount   |-> FundedBy(j, tops[j])[i - 3 * (j - 1)].ui_amount]
                       ELSE [funder |-> "Lone" \o Wallets[i], balance_pct |-> 10,
                             ui_amount |-> 0]]]

HoldersOf(hfm) ==
  [i \in 1..Len(hfm.keys) |->
     [owner     |-> hfm.keys[i],
      ui_amount |-> hfm.at[hfm.keys[i]].ui_amount,
      pct       |-> hfm.at[hfm.keys[i]].balance_pct]]

InitCabal ==
  /\ pc = "call"
  /\ chain = "solana"
  /\ pending = {"calculate_cabal_score"}
  /\ \E c \in 0..MaxClusters, lone \in LoneHolders :
       \E tops \in [1..c -> TopShares] :
         /\ clusters = ClustersOf(tops)
         /\ holder_funder_map = MapOf(tops, lone)
         /\ holders = HoldersOf(holder_funder_map)
  /\ ledger = << >>
  /\ funding_results = << >>
  /\ result = NoResult
  /\ wallet_data = _wallet_defaults /\ holder_data = _holder_defaults
  /\ lp_data = _lp_defaults /\ supply_data = _supply_defaults
  /\ mev_data = _mev_defaults /\ sub = NoSub /\ report = NoReport
  /\ dev_data = NoDev
  /\ NoSupplyCall
  /\ NoOtherRuns

ApplyCabalScore ==
  /\ pc = "call"
  /\ pending = {"calculate_cabal_score"}
  /\ pc' = "returned"
  /\ pending' = {}
  /\ result' = [cabal_probability |-> calculate_cabal_score(clusters, holders, holder_funder_map)]
  /\ UNCHANGED <<holders, ledger, funding_results, holder_funder_map, clusters>>
  /\ ClusterFrame

NextCabal == ApplyCabalScore

SpecCabal == InitCabal /\ [][NextCabal]_vars

\* ------------------------------------------------------------------------
\* The deployer rating as a function of the deployer's prior tokens: one
\* call of get_dev_alpha (from step 2 on) or get_evm_dev_history (after the
\* deployer and its tokens are found) on one list.
\* ------------------------------------------------------------------------
MaxPriorTokens == 4

\* the market data of one prior token: traded at a market cap, listed with
\* no market cap, or not found at all
TokenKinds ==
  <<[market_cap |-> 2000000, on_dex |-> TRUE], [market_cap |-> 1000000, on_dex |-> TRUE],
    [market_cap |-> 500000, on_dex |-> TRUE], [market_cap |-> 400000, on_dex |-> TRUE],
    [market_cap |-> 100000, on_dex |-> TRUE], [market_cap |-> 50000, on_dex |-> TRUE],
    [market_cap |-> 0, on_dex |-> TRUE], [market_cap |-> 0, on_dex |-> FALSE]>>

\* the lists enrich_with_dexscreener returns: sorted by market cap, largest
\* first
PriorTokenLists ==
  UNION {{[i \in 1..n |-> TokenKinds[k[i]]] :
            k \in {f \in [1..n -> 1..Len(TokenKinds)] : \A i \in 1..(n - 1) : f[i] <= f[i + 1]}} :
         n \in 0..MaxPriorTokens}

\* on an EVM chain every token comes from a DexScreener pair
EvmTokenLists == {ts \in PriorTokenLists : \A i \in 1..Len(ts) : ts[i].on_dex}

InitDev ==
  /\ pc = "call"
  /\ \/ chain = "solana" /\ pending = {"get_dev_alpha"} /\ tokens \in PriorTokenLists
     \/ chain \in EvmChains /\ pending = {"get_evm_dev_history"} /\ tokens \in EvmTokenLists
  /\ dev_report = NoDevReport
  /\ wallet_data = _wallet_defaults /\ holder_data = _holder_defaults
  /\ lp_data = _lp_defaults /\ supply_data = _supply_defaults
  /\ mev_data = _mev_defaults /\ sub = NoSub /\ report = NoReport
  /\ dev_data = NoDev
  /\ NoSupplyCall
  /\ NoClusterRun
  /\ NoDeployerRun
  /\ NoDiscovery
  /\ NoMonitors
  /\ NoSummary
  /\ NoWatchRun

DevFrame ==
  UNCHANGED <<chain, wallet_data, lp_data, supply_data, mev_data, holder_data, sub, report,
              dev_data, supplyCall, clusterRun, deployerRun, discovery, monitors, summary,
              watchRun>>

ApplyGetDevAlpha ==
  /\ pc = "call"
  /\ pending = {"get_dev_alpha"}
  /\ pc' = "returned"
  /\ pending' = {}
  /\ dev_report' = get_dev_alpha_report(tokens)
  /\ UNCHANGED tokens
  /\ DevFrame

ApplyGetEvmDevHistory ==
  /\ pc = "call"
  /\ pending = {"get_evm_dev_history"}
  /\ pc' = "returned"
  /\ pending' = {}
  /\ dev_report' = get_evm_dev_history_report(tokens)
  /\ UNCHANGED tokens
  /\ DevFrame

NextDev ==
  \/ ApplyGetDevAlpha
  \/ ApplyGetEvmDevHistory

SpecDev == InitDev /\ [][NextDev]_vars

\* ------------------------------------------------------------------------
\* Deployer resolution: get_deployer on Solana, the first part of
\* get_evm_dev_history on an EVM chain.  The answers of the sources are fixed
\* for the token; each action is one request of the function.
\* ------------------------------------------------------------------------
\* getAccountInfo: the mint has a mint authority, only a freeze authority,
\* both revoked, or the request fails (also when the account is unknown)
AccountAnswers == {"mint_authority", "freeze_authority", "revoked", "raises"}

\* getSignaturesForAddress
SignatureAnswers == {"none", "found", "raises"}

\* getTransaction of the oldest signature: no result, account keys with a
\* writable signer other than the mint, keys without one, or a failure
TransactionAnswers == {"no_result", "signer", "no_signer", "raises"}

\* the enhanced-transactions endpoint: a feePayer, none, or a failure
EnhancedAnswers == {"fee_payer", "none", "raises"}

\* getcontractcreation of the chain's explorer
CreationAnswers == {"creator", "none", "raises"}

\* _find_deployer_rpc catches its own exceptions
RpcAnswers == {"from", "none"}

SolanaAnswers ==
  [account : AccountAnswers, signatures : SignatureAnswers,
   transaction : TransactionAnswers, enhanced : EnhancedAnswers]

EvmAnswers == [key : BOOLEAN, creation : CreationAnswers, rpc : RpcAnswers]

InitDeployer ==
  /\ \/ chain = "solana" /\ pc = "account" /\ answers \in SolanaAnswers
     \/ chain \in EvmChains /\ pc = "creation" /\ answers \in EvmAnswers
  /\ queried = << >>
  /\ deployer = None
  /\ pending = {}
  /\ wallet_data = _wallet_defaults /\ holder_data = _holder_defaults
  /\ lp_data = _lp_defaults /\ supply_data = _supply_defaults
  /\ mev_data = _mev_defaults /\ sub = NoSub /\ report = NoReport
  /\ dev_data = NoDev
  /\ NoSupplyCall
  /\ NoClusterRun
  /\ NoDevRating
  /\ NoDiscovery
  /\ NoMonitors
  /\ NoSummary
  /\ NoWatchRun

DeployerFrame ==
  UNCHANGED <<chain, pending, wallet_data, lp_data, supply_data, mev_data, holder_data, sub,
              report, dev_data, supplyCall, clusterRun, devRating, discovery, monitors, summary,
              watchRun, answers>>

\* return of get_deployer, or the end of the resolution in get_evm_dev_history
ReturnDeployer(d) ==
  /\ pc' = "returned"
  /\ deployer' = d

\* Method 1: mintAuthority, then freezeAuthority
getAccountInfo ==
  /\ pc = "account"
  /\ queried' = Append(queried, "authority")
  /\ IF answers.account = "mint_authority" THEN ReturnDeployer("MintAuthority")
     ELSE IF answers.account = "freeze_authority" THEN ReturnDeployer("FreezeAuthority")
     ELSE IF answers.account = "raises" THEN ReturnDeployer(None)
     ELSE pc' = "signatures" /\ UNCHANGED deployer
  /\ DeployerFrame

\* Method 2, first request: the signatures of the mint
getSignaturesForAddress ==
  /\ pc = "signatures"
  /\ queried' = Append(queried, "creation_tx")
  /\ IF answers.signatures = "found" THEN pc' = "transaction" /\ UNCHANGED deployer
     ELSE ReturnDeployer(None)
  /\ DeployerFrame

\* Method 2, second request: the creation transaction and its account keys
getTransaction ==
  /\ pc = "transaction"
  /\ IF answers.transaction = "signer" THEN ReturnDeployer("Signer")
     ELSE IF answers.transaction = "no_signer" THEN pc' = "enhanced" /\ UNCHANGED deployer
     ELSE ReturnDeployer(None)
  /\ UNCHANGED queried
  /\ DeployerFrame

\* Method 3: feePayer of the enhanced transaction
enhanced_transactions ==
  /\ pc = "enhanced"
  /\ queried' = Append(queried, "explorer_api")
  /\ ReturnDeployer(IF answers.enhanced = "fee_payer" THEN "FeePayer" ELSE None)
  /\ DeployerFrame

\* EVM method 1: contractCreator from the explorer, when the chain has a key
getcontractcreation ==
  /\ pc = "creation"
  /\ IF ~answers.key THEN pc' = "rpc" /\ UNCHANGED <<queried, deployer>>
     ELSE /\ queried' = Append(queried, "explorer_api")
          /\ IF answers.creation = "creator" THEN ReturnDeployer("Creator")
             ELSE IF answers.creation = "raises" THEN ReturnDeployer(None)
             ELSE pc' = "rpc" /\ UNCHANGED deployer
  /\ DeployerFrame

\* EVM method 2: sender of the transaction of the first mint event
_find_deployer_rpc ==
  /\ pc = "rpc"
  /\ queried' = Append(queried, "creation_tx")
  /\ ReturnDeployer(IF answers.rpc = "from" THEN "From" ELSE None)
  /\ DeployerFrame

NextDeployer ==
  \/ getAccountInfo
  \/ getSignaturesForAddress
  \/ getTransaction
  \/ enhanced_transactions
  \/ getcontractcreation
  \/ _find_deployer_rpc

SpecDeployer == InitDeployer /\ [][NextDeployer]_vars

\* ------------------------------------------------------------------------
\* get_deployed_tokens: the three discovery strategies in turn, then the
\* filter.  A strategy that fails or answers with another status discovers
\* nothing; one that fails part-way has discovered a shorter list.
\* ------------------------------------------------------------------------
MaxFound == 13

\* time.time() at the call, in whole seconds
Nows == {1800000000}

\* the timestamps a strategy gives: unknown, just outside the window, at its
\* start, at the call
StampKinds == {"unknown", "recent", "old", "mixed"}

Stamp(kind, i, c) ==
  IF kind = "unknown" THEN 0
  ELSE IF kind = "recent" THEN c + LookbackSeconds
  ELSE IF kind = "old" THEN c - 1
  ELSE IF i % 3 = 0 THEN 0
  ELSE IF i % 3 = 1 THEN c
  ELSE c - 1

\* a strategy's answer: n tokens with consecutive mints from a first mint
Found(first, n, kind, c) ==
  [i \in 1..n |-> [mint |-> first + i - 1, timestamp |-> Stamp(kind, i, c)]]

FirstMints == {0, 1, MaxFound \div 2, MaxFound + 1}

StrategyAnswers(c) ==
  {Found(first, n, kind, c) : first \in FirstMints, n \in 0..MaxFound, kind \in StampKinds}

InitDiscovery ==
  /\ pc = "search"
  /\ chain = "solana"
  /\ \E now \in Nows : cutoff = now - LookbackSeconds
  /\ seen = {}
  /\ token_mints = << >>
  /\ deployed = << >>
  /\ pending = {}
  /\ wallet_data = _wallet_defaults /\ holder_data = _holder_defaults
  /\ lp_data = _lp_defaults /\ supply_data = _supply_defaults
  /\ mev_data = _mev_defaults /\ sub = NoSub /\ report = NoReport
  /\ dev_data = NoDev
  /\ NoSupplyCall
  /\ NoClusterRun
  /\ NoDevRating
  /\ NoDeployerRun
  /\ NoMonitors
  /\ NoSummary
  /\ NoWatchRun

DiscoveryFrame ==
  UNCHANGED <<chain, pending, wallet_data, lp_data, supply_data, mev_data, holder_data, sub,
              report, dev_data, supplyCall, clusterRun, devRating, deployerRun, monitors, summary,
              watchRun, cutoff>>

\* a strategy's loop over what it found, then on to the next step
Strategy(next) ==
  /\ pc' = next
  /\ \E found \in StrategyAnswers(cutoff) :
       /\ token_mints' = Discover(token_mints, found)
       /\ seen' = MintsOf(token_mints')
  /\ UNCHANGED deployed
  /\ DiscoveryFrame

\* Strategy 1: DexScreener search by deployer
dexscreener_search ==
  /\ pc = "search"
  /\ Strategy("pump")

\* Strategy 2: the pump.fun coins of the user
pump_fun_coins ==
  /\ pc = "pump"
  /\ Strategy("scan")

\* Strategy 3: the Helius transaction scan, only below three tokens
helius_scan ==
  /\ pc = "scan"
  /\ IF Len(token_mints) < 3 THEN Strategy("filter")
     ELSE /\ pc' = "filter"
          /\ UNCHANGED <<seen, token_mints, deployed>>
          /\ DiscoveryFrame

\* the filter to 60 days and the return of the first 25
filter_and_return ==
  /\ pc = "filter"
  /\ pc' = "returned"
  /\ deployed' = FirstN(Filter(<< >>, token_mints, cutoff), ResultCap)
  /\ UNCHANGED <<seen, token_mints>>
  /\ DiscoveryFrame

NextDiscovery ==
  \/ dexscreener_search
  \/ pump_fun_coins
  \/ helius_scan
  \/ filter_and_return

SpecDiscovery == InitDiscovery /\ [][NextDiscovery]_vars

\* ------------------------------------------------------------------------
\* The live monitors (monitor.py, clusters.py).  Every launch event becomes a
\* task on the one event loop; tasks interleave at their awaits only.
\* ------------------------------------------------------------------------
MaxEvents == 3

\* the tokens the launch events are about
LaunchedTokens == {"TokenA", "TokenB"}

\* _monitor_users | {ADMIN_ID}
Recipients == {"Admin", "User"}

Monitors == {"solana", "evm"}

NoAlerts == [m \in Monitors, t \in LaunchedTokens, r \in Recipients |-> 0]

\* the scan data of a state in which no scan runs
NoScanData ==
  /\ wallet_data = _wallet_defaults /\ holder_data = _holder_defaults
  /\ lp_data = _lp_defaults /\ supply_data = _supply_defaults
  /\ mev_data = _mev_defaults /\ sub = NoSub /\ report = NoReport
  /\ dev_data = NoDev
  /\ NoSupplyCall
  /\ NoClusterRun

scanData ==
  <<wallet_data, lp_data, supply_data, mev_data, holder_data, sub, report, dev_data,
    supplyCall, clusterRun>>

InitMonitor ==
  /\ pc = "listening"
  /\ chain = "solana"
  /\ pending = {}
  /\ _seen_mints = {}
  /\ _seen_evm = {}
  /\ launches = << >>
  /\ alerts = NoAlerts
  /\ NoScanData
  /\ NoDevRating
  /\ NoDeployerRun
  /\ NoDiscovery
  /\ NoSummary
  /\ NoWatchRun

MonitorFrame ==
  UNCHANGED <<pc, chain, pending, scanData, devRating, deployerRun, discovery, summary,
              watchRun>>

\* a set that keeps no member
AddForgetful(set, member) == set

\* _seen_mints.add(mint), _seen_evm.add(token_ca)
Add(set, member) == set \cup {member}

\* a launch task: the monitor it belongs to, the token of its event (None
\* when the event gives none), its position, and the recipients still to be
\* sent to
Launch(monitor, token, at) ==
  [monitor |-> monitor, token |-> token, at |-> at, recipients |-> {}]

\* _handle_message: a create event starts a _process_launch task
_handle_message ==
  /\ Len(launches) < MaxEvents
  /\ \E token \in LaunchedTokens \cup {None} :
       launches' = Append(launches, Launch("solana", token, "details"))
  /\ UNCHANGED <<_seen_mints, _seen_evm, alerts>>
  /\ MonitorFrame

\* _process_launch from the return of get_launch_details to its next await:
\* the check against _seen_mints and the add
_process_launch ==
  \E i \in 1..Len(launches) :
    /\ launches[i].at = "details"
    /\ LET mint == launches[i].token
       IN  IF mint = None THEN
             /\ launches' = [launches EXCEPT ![i].at = "no_mint"]
             /\ UNCHANGED _seen_mints
           ELSE IF mint \in _seen_mints THEN
             /\ launches' = [launches EXCEPT ![i].at = "duplicate"]
             /\ UNCHANGED _seen_mints
           ELSE
             /\ _seen_mints' = Add(_seen_mints, mint)
             /\ launches' = [launches EXCEPT ![i].at = "enrich"]
    /\ UNCHANGED <<_seen_evm, alerts>>
    /\ MonitorFrame

\* _handle_evm_event: the check against _seen_evm and the add, then the task
_handle_evm_event ==
  /\ Len(launches) < MaxEvents
  /\ \E token_ca \in LaunchedTokens \cup {None} :
       IF token_ca = None THEN
         /\ launches' = Append(launches, Launch("evm", None, "no_mint"))
         /\ UNCHANGED _seen_evm
       ELSE IF token_ca \in _seen_evm THEN
         /\ launches' = Append(launches, Launch("evm", token_ca, "duplicate"))
         /\ UNCHANGED _seen_evm
       ELSE
         /\ _seen_evm' = Add(_seen_evm, token_ca)
         /\ launches' = Append(launches, Launch("evm", token_ca, "enrich"))
  /\ UNCHANGED <<_seen_mints, alerts>>
  /\ MonitorFrame

\* the enrichment of a task and its filter: without socials (a rug flag on
\* an EVM chain) or on an exception the task ends, else the alert is built
enrich ==
  \E i \in 1..Len(launches) :
    /\ launches[i].at = "enrich"
    /\ \E passes \in BOOLEAN :
         launches' = IF passes
                     THEN [launches EXCEPT ![i].at = "sending", ![i].recipients = Recipients]
                     ELSE [launches EXCEPT ![i].at = "skipped"]
    /\ UNCHANGED <<_seen_mints, _seen_evm, alerts>>
    /\ MonitorFrame

\* send_launch_alert, _send_evm_alert: one bot.send_message of the loop over
\* the recipients; a failed send is logged and the loop goes on
send_message ==
  \E i \in 1..Len(launches) :
    /\ launches[i].at = "sending"
    /\ \E chat_id \in launches[i].recipients : \E delivered \in BOOLEAN :
         LET rest == launches[i].recipients \ {chat_id}
             key  == <<launches[i].monitor, launches[i].token, chat_id>>
         IN  /\ launches' = [launches EXCEPT ![i].recipients = rest,
                                             ![i].at = IF rest = {} THEN "sent" ELSE "sending"]
             /\ alerts' = IF delivered THEN [alerts EXCEPT ![key] = @ + 1] ELSE alerts
    /\ UNCHANGED <<_seen_mints, _seen_evm>>
    /\ MonitorFrame

NextMonitor ==
  \/ _handle_message
  \/ _handle_evm_event
  \/ _process_launch
  \/ enrich
  \/ send_message

SpecMonitor == InitMonitor /\ [][NextMonitor]_vars

\* ------------------------------------------------------------------------
\* The summary as a function of the merged profile: one call of
\* generate_summary or generate_evm_summary on profiles around the thresholds.
\* ------------------------------------------------------------------------
SummaryClusterPcts == {300, 301}
SummaryFreshPcts   == {400, 401}
SummaryLiquidity   == {999, 1000, 4999, 5000}
SummaryTop10Pcts   == {500, 501}
SummaryTop1Pcts    == {2000, 2001}
SummaryGinis       == {30}
SummarySandwiches  == {2, 3}
SummaryBots        == {0, 1}

InitSummary ==
  /\ pc = "call"
  /\ lp_data \in LpProfiles(SummaryLiquidity)
  /\ supply_data \in SupplyProfiles(SummaryTop10Pcts, SummaryTop1Pcts, SummaryGinis)
  /\ \/ /\ chain = "solana"
        /\ pending = {"generate_summary"}
        /\ wallet_data \in WalletProfiles(SummaryClusterPcts, SummaryFreshPcts)
        /\ mev_data \in MevProfiles(SummarySandwiches, SummaryBots)
        /\ holder_data = _holder_defaults
     \/ /\ chain \in EvmChains
        /\ pending = {"generate_evm_summary"}
        /\ wallet_data = _wallet_defaults
        /\ mev_data = _mev_defaults
        /\ holder_data \in HolderProfiles(SummaryClusterPcts, SummaryFreshPcts)
  /\ sub = NoSub /\ report = NoReport /\ dev_data = NoDev
  /\ NoSupplyCall
  /\ NoClusterRun
  /\ NoDevRating
  /\ NoDeployerRun
  /\ NoDiscovery
  /\ NoMonitors
  /\ NoSummary
  /\ NoWatchRun

SummaryFrame ==
  UNCHANGED <<chain, scanData, devRating, deployerRun, discovery, monitors, watchRun>>

\* the merged dict d of scan_token
MergedProfile ==
  [fresh_wallet_pct |-> wallet_data.fresh_wallet_pct, cluster_pct |-> wallet_data.cluster_pct,
   lp_liquidity_usd |-> lp_data.lp_liquidity_usd,
   top10_pct |-> supply_data.top10_pct, top1_pct |-> supply_data.top1_pct,
   sandwich_count |-> mev_data.sandwich_count, mev_bots |-> mev_data.mev_bots]

\* the merged dict d of scan_evm_token
EvmMergedProfile ==
  [lp_liquidity_usd |-> lp_data.lp_liquidity_usd,
   top10_pct |-> supply_data.top10_pct, top1_pct |-> supply_data.top1_pct]

ApplyGenerateSummary ==
  /\ pc = "call"
  /\ pending = {"generate_summary"}
  /\ pc' = "returned"
  /\ pending' = {}
  /\ summary' = generate_summary(MergedProfile)
  /\ SummaryFrame

ApplyGenerateEvmSummary ==
  /\ pc = "call"
  /\ pending = {"generate_evm_summary"}
  /\ pc' = "returned"
  /\ pending' = {}
  /\ summary' = generate_evm_summary(EvmMergedProfile)
  /\ SummaryFrame

NextSummary ==
  \/ ApplyGenerateSummary
  \/ ApplyGenerateEvmSummary

SpecSummary == InitSummary /\ [][NextSummary]_vars

\* ------------------------------------------------------------------------
\* The watchlist (watchlist.py, bot.py).  watchlist_job runs
\* check_watchlist_alerts on the event loop of the bot; the commands /watch and
\* /unwatch run between its awaits.  The file is a function from the pairs
\* of user and token to a slot: watched or not, and the last_score.
\* ------------------------------------------------------------------------
WatchUsers == {"UserA", "UserB"}

WatchedTokens == {"TokenA"}

Entries == WatchUsers \X WatchedTokens

\* the risk scores a re-scan returns
WatchScores == {20, 34, 35}

\* last_score None
NoScore == 0 - 1

\* a re-scan that raised, and one not made yet
Failed == 0 - 2

NotReached == 0 - 3

Unwatched == [watched |-> FALSE, last_score |-> NoScore]

Watched(score) == [watched |-> TRUE, last_score |-> score]

Slots == {Unwatched} \cup {Watched(v) : v \in WatchScores \cup {NoScore}}

Abs(x) == IF x < 0 THEN 0 - x ELSE x

\* an alert for rises only
RisenBy15(change) == change >= 15

\* abs(change) >= 15
ChangedBy15(change) == Abs(change) >= 15

InitWatch ==
  /\ pc = "idle"
  /\ chain = "solana"
  /\ pending = {}
  /\ watchlist_file \in [Entries -> Slots]
  /\ data = watchlist_file
  /\ loaded = watchlist_file
  /\ todo = {}
  /\ rescans = [e \in Entries |-> NotReached]
  /\ watch_alerts = {}
  /\ changes = [e \in Entries |-> "none"]
  /\ NoScanData
  /\ NoDevRating
  /\ NoDeployerRun
  /\ NoDiscovery
  /\ NoMonitors
  /\ NoSummary

WatchFrame ==
  UNCHANGED <<chain, pending, scanData, devRating, deployerRun, discovery, monitors, summary>>

\* check_watchlist_alerts up to its first await: data = _load(), alerts = []
check_watchlist_alerts ==
  /\ pc \in {"idle", "saved"}
  /\ pc' = "scanning"
  /\ data' = watchlist_file
  /\ loaded' = watchlist_file
  /\ todo' = {e \in Entries : watchlist_file[e].watched}
  /\ rescans' = [e \in Entries |-> NotReached]
  /\ watch_alerts' = {}
  /\ changes' = [e \in Entries |-> "none"]
  /\ UNCHANGED watchlist_file
  /\ WatchFrame

\* one pass of the loops: the re-scan of a token returns a score or raises
rescan ==
  /\ pc = "scanning"
  /\ \E e \in todo : \E new_score \in WatchScores \cup {Failed} :
       /\ todo' = todo \ {e}
       /\ rescans' = [rescans EXCEPT ![e] = new_score]
       /\ IF new_score = Failed THEN UNCHANGED <<data, watch_alerts>>
          ELSE LET last_score == data[e].last_score
               IN  /\ data' = [data EXCEPT ![e].last_score = new_score]
                   /\ watch_alerts' =
                        IF last_score # NoScore /\ ChangedBy15(new_score - last_score)
                        THEN watch_alerts
                             \cup {[entry |-> e, previous |-> last_score, now |-> new_score]}
                        ELSE watch_alerts
  /\ UNCHANGED <<pc, watchlist_file, loaded, changes>>
  /\ WatchFrame

\* the end of check_watchlist_alerts: _save(data)
save ==
  /\ pc = "scanning"
  /\ todo = {}
  /\ pc' = "saved"
  /\ watchlist_file' = data
  /\ UNCHANGED <<data, loaded, todo, rescans, watch_alerts, changes>>
  /\ WatchFrame

\* /watch: add_to_watchlist loads, sets the token and saves, without an await
add_to_watchlist ==
  /\ \E e \in Entries :
       /\ watchlist_file' =
            [watchlist_file EXCEPT ![e] = IF @.watched THEN @ ELSE Watched(NoScore)]
       /\ changes' = [changes EXCEPT ![e] = "added"]
  /\ UNCHANGED <<pc, data, loaded, todo, rescans, watch_alerts>>
  /\ WatchFrame

\* /unwatch: remove_from_watchlist deletes a watched token and saves
remove_from_watchlist ==
  /\ \E e \in Entries :
       /\ watchlist_file[e].watched
       /\ watchlist_file' = [watchlist_file EXCEPT ![e] = Unwatched]
       /\ changes' = [changes EXCEPT ![e] = "removed"]
  /\ UNCHANGED <<pc, data, loaded, todo, rescans, watch_alerts>>
  /\ WatchFrame

NextWatch ==
  \/ check_watchlist_alerts
  \/ rescan
  \/ save
  \/ add_to_watchlist
  \/ remove_from_watchlist

SpecWatch == InitWatch /\ [][NextWatch]_vars

\* ------------------------------------------------------------------------
\* Properties
\* ------------------------------------------------------------------------
SolanaDone == pc = "done" /\ chain = "solana"
EvmDone    == pc = "done" /\ chain \in EvmChains

\* the exact weighted sums, in hundredths
SolanaWeighted == 30 * sub.ws + 25 * sub.ls + 25 * sub.ss + 20 * sub.ms
EvmWeighted    == 35 * sub.ls + 35 * sub.ss + 30 * sub.hs

\* C1 as stated: the Solana risk_score is the weighted sum of the four
\* sub-scores rounded to the nearest integer (at most a half away from it).
C1_RoundedToNearest ==
  SolanaDone =>
    /\ 100 * report.risk_score - 50 <= SolanaWeighted
    /\ SolanaWeighted <= 100 * report.risk_score + 50

\* C1 amended: the Solana risk_score is the weighted sum of the four
\* sub-scores truncated toward zero (its floor), for every combination of
\* sub-scores the scorers return.
C1_TruncatedWeightedSum ==
  SolanaDone => report.risk_score = SolanaWeighted \div 100

\* a scan whose weighted sum has a fraction of a half or more, cut off
C1_Witness ==
  /\ SolanaDone
  /\ SolanaWeighted % 100 >= 50
  /\ report.risk_score = SolanaWeighted \div 100

\* the scenario of C2: liquidity $800, top10 85%, gini 0.9, fresh 70%,
\* cluster 40%, 5 sandwiches, 2 bot wallets
C2_Scenario ==
  /\ SolanaDone
  /\ lp_data.lp_liquidity_usd = 800
  /\ supply_data.top10_pct = 850 /\ supply_data.gini = 90
  /\ wallet_data = [cluster_pct |-> 400, fresh_wallet_pct |-> 700]
  /\ mev_data = [mev_bots |-> 2, sandwich_count |-> 5]

\* C2 as stated: the scenario scan gets a composite above 80, the CRITICAL band.
C2_ScenarioIsCritical ==
  C2_Scenario => report.risk_score > 80

\* C2 amended: the scenario scan has sub-scores 67, 90, 96 and 65 and gets the
\* composite 79, which lies in the HIGH band (60 < score <= 80).
C2_ScenarioIsHigh ==
  C2_Scenario =>
    /\ sub = [ws |-> 67, ls |-> 90, ss |-> 96, ms |-> 65, hs |-> NotComputed]
    /\ report.risk_score = 79
    /\ report.risk_score > 60 /\ report.risk_score <= 80
    /\ report.opener = "High risk - significant red flags."

C2_Witness == C2_Scenario /\ report.risk_score = 79

\* C3: for sub-scores in 0..100 the Solana composite is an integer in 0..100,
\* and it is 100 when all four sub-scores are 100.
C3_CompositeRange ==
  (pc = "returned" /\ chain = "solana" /\ report.risk_score # NotComputed) =>
    /\ report.risk_score \in 0..100
    /\ (sub.ws = 100 /\ sub.ls = 100 /\ sub.ss = 100 /\ sub.ms = 100
          => report.risk_score = 100)

C3_Witness ==
  /\ pc = "returned" /\ chain = "solana"
  /\ sub.ws = 100 /\ sub.ls = 100 /\ sub.ss = 100 /\ sub.ms = 100
  /\ report.risk_score = 100

ScorerReturned(field) == pc = "returned" /\ report = NoReport /\ sub[field] # NotComputed

\* the report of a composite applied to given sub-scores
CompositeReturned == pc = "returned" /\ report # NoReport

\* score_lp of the scanned chain on another liquidity value
LpScoreOf(l) ==
  IF chain = "solana" THEN score_lp([lp_liquidity_usd |-> l])
  ELSE evm_score_lp([lp_liquidity_usd |-> l])

\* C5: score_lp (either copy) returns 80 for liquidity 0, 90 below 1000, 70
\* from 1000 below 5000, 40 from 5000 below 20000 and 20 from 20000 on.
C5_LiquidityTable ==
  ScorerReturned("ls") =>
    LET liq == lp_data.lp_liquidity_usd
    IN  /\ liq = 0 => sub.ls = 80
        /\ (0 < liq /\ liq < 1000) => sub.ls = 90
        /\ (1000 <= liq /\ liq < 5000) => sub.ls = 70
        /\ (5000 <= liq /\ liq < 20000) => sub.ls = 40
        /\ liq >= 20000 => sub.ls = 20

C5_Witness ==
  /\ ScorerReturned("ls")
  /\ chain = "ethereum"
  /\ lp_data.lp_liquidity_usd = 20000
  /\ sub.ls = 20

\* the liquidity score does not increase with positive liquidity
LpMonotone ==
  LET liq == lp_data.lp_liquidity_usd
  IN  \A l \in Liquidities : (liq > 0 /\ l >= liq) => LpScoreOf(l) <= sub.ls

\* C6 as stated: the liquidity score is non-increasing over positive
\* liquidity, and liquidity 0 scores higher than any pool below $1,000.
C6_AbsenceWorseThanTinyPool ==
  ScorerReturned("ls") =>
    LET liq == lp_data.lp_liquidity_usd
    IN  /\ LpMonotone
        /\ (0 < liq /\ liq < 1000) => LpScoreOf(0) > sub.ls

\* C6 amended: the liquidity score is non-increasing over positive liquidity;
\* liquidity 0 scores 80, below the 90 of any pool under $1,000 and above the
\* score of every pool of $1,000 or more.
C6_AbsenceBetweenTinyAndLow ==
  ScorerReturned("ls") =>
    LET liq == lp_data.lp_liquidity_usd
    IN  /\ LpMonotone
        /\ (0 < liq /\ liq < 1000) => (LpScoreOf(0) = 80 /\ sub.ls = 90)
        /\ liq >= 1000 => LpScoreOf(0) > sub.ls

C6_Witness ==
  /\ ScorerReturned("ls")
  /\ chain = "solana"
  /\ lp_data.lp_liquidity_usd = 500
  /\ sub.ls = 90
  /\ LpScoreOf(0) = 80

\* C7: score_supply returns min(100, t + floor(gini*40)) with t = 60, 40, 20
\* or 0 by the highest threshold top10Pct exceeds; the result is in 0..100 and
\* is 100 at top10Pct = 100, gini = 1.
C7_SupplyScore ==
  (ScorerReturned("ss") /\ IsNumber(supply_data.top10_pct) /\ IsNumber(supply_data.gini)) =>
    LET top10 == supply_data.top10_pct
        gini  == supply_data.gini
        t == IF top10 > 800 THEN 60
             ELSE IF top10 > 500 THEN 40
             ELSE IF top10 > 300 THEN 20
             ELSE 0
        e == t + (gini * 40) \div 100
    IN  /\ sub.ss = (IF e > 100 THEN 100 ELSE e)
        /\ sub.ss \in 0..100
        /\ (top10 = 1000 /\ gini = 100) => sub.ss = 100

C7_Witness ==
  /\ ScorerReturned("ss")
  /\ supply_data.top10_pct = 1000
  /\ supply_data.gini = 100
  /\ sub.ss = 100

\* C8: the wallet-activity score is the integer part of
\* min(fresh*0.5, 50) + min(cluster*0.8, 50), lies in 0..100, and
\* score_wallets and score_holders agree on the same profile.
C8_WalletScore ==
  (ScorerReturned("ws") /\ holder_data = wallet_data) =>
    LET cp == wallet_data.cluster_pct
        fp == wallet_data.fresh_wallet_pct
        \* hundredths of a point: fp/10 * 0.5 = 5*fp/100, cp/10 * 0.8 = 8*cp/100
        f == IF IsNumber(fp) THEN (IF 5 * fp > 5000 THEN 5000 ELSE 5 * fp) ELSE 0
        c == IF IsNumber(cp) THEN (IF 8 * cp > 5000 THEN 5000 ELSE 8 * cp) ELSE 0
    IN  /\ sub.ws = (f + c) \div 100
        /\ sub.ws \in 0..100
        /\ sub.hs = sub.ws

C8_Witness ==
  /\ ScorerReturned("ws")
  /\ wallet_data = [cluster_pct |-> 626, fresh_wallet_pct |-> 999]
  /\ holder_data = wallet_data
  /\ sub.ws = 99
  /\ sub.hs = 99

\* C9: score_mev returns min(sandwich*5, 60) + min(bots*20, 40) clamped to
\* 100: an integer in 0..100 with at most 60 from sandwiches and at most 40
\* from bot wallets.
C9_MevScore ==
  (ScorerReturned("ms") /\ IsNumber(mev_data.sandwich_count) /\ IsNumber(mev_data.mev_bots)) =>
    LET sc   == mev_data.sandwich_count
        bots == mev_data.mev_bots
        a == IF sc * 5 > 60 THEN 60 ELSE sc * 5
        b == IF bots * 20 > 40 THEN 40 ELSE bots * 20
    IN  /\ sub.ms = (IF a + b > 100 THEN 100 ELSE a + b)
        /\ sub.ms \in 0..100
        /\ bots = 0 => sub.ms <= 60
        /\ sc = 0 => sub.ms <= 40

C9_Witness ==
  /\ ScorerReturned("ms")
  /\ mev_data.sandwich_count = 13
  /\ mev_data.mev_bots = 0
  /\ sub.ms = 60

\* the bracket a label or an opener stands for matches the score
InBracket(band, score) ==
  /\ band = "Low" <=> score <= 30
  /\ band = "Medium" <=> (30 < score /\ score <= 60)
  /\ band = "High" <=> (60 < score /\ score <= 80)
  /\ band = "Critical" <=> score > 80

OpenerBand(opener) ==
  IF opener \in {"Relatively low risk signals.", "Relatively low risk."} THEN "Low"
  ELSE IF opener = "Moderate risk - proceed with caution." THEN "Medium"
  ELSE IF opener = "High risk - significant red flags." THEN "High"
  ELSE IF opener = "Critical risk - multiple severe red flags." THEN "Critical"
  ELSE "none"

\* C10: every risk label of a report is LOW up to 30, MEDIUM up to 60, HIGH up
\* to 80 and CRITICAL above, and the summary's opener is picked by the same
\* brackets from the report's risk_score.
C10_LabelBrackets ==
  CompositeReturned =>
    /\ InBracket(report.lp_risk, sub.ls)
    /\ InBracket(report.supply_risk, sub.ss)
    /\ chain = "solana" =>
         /\ InBracket(report.wallet_risk, sub.ws)
         /\ InBracket(report.mev_risk, sub.ms)
    /\ chain \in EvmChains =>
         /\ InBracket(report.holder_risk, sub.hs)
         /\ InBracket(report.wallet_risk, sub.hs)
    /\ InBracket(OpenerBand(report.opener), report.risk_score)

C10_Witness ==
  /\ CompositeReturned
  /\ chain = "solana"
  /\ sub.ls = 30 /\ report.lp_risk = "Low"
  /\ sub.ss = 100 /\ report.supply_risk = "Critical"
  /\ report.risk_score = 60
  /\ report.opener = "Moderate risk - proceed with caution."

\* ------------------------------------------------------------------------
\* Supply concentration
\* ------------------------------------------------------------------------
GiniReturned == pc = "returned" /\ gini_value # NoGini

EqualPositive(as) == as # << >> /\ \A i \in 1..Len(as) : as[i] = as[1] /\ as[i] > 0

IsZero(x) == x.m = << >>

S1 == SFromInt(1)

SupplyReturned ==
  /\ pc = "returned"
  /\ gini_value = NoGini
  /\ IsNumber(supply_data.top10_pct)
  /\ IsNumber(supply_data.top1_pct)
  /\ IsNumber(supply_data.gini)

\* C13: every numeric supply profile returned by scan_supply or
\* get_evm_supply has 0 <= gini <= 1 and top1_pct <= top10_pct <= 100, on
\* the values as reported (top1_pct to two decimals, top10_pct to one).
C13_SupplyProfileInvariant ==
  SupplyReturned =>
    /\ 0 <= supply_data.gini /\ supply_data.gini <= 100
    /\ supply_data.top1_pct <= 10 * supply_data.top10_pct
    /\ supply_data.top10_pct <= 1000

\* ------------------------------------------------------------------------
\* Properties of find_wallet_clusters and calculate_cabal_score
\* ------------------------------------------------------------------------
ClusterDone == pc = "done" /\ result # CouldNotFetch

RecordedFunders ==
  {result.holder_funder_map.at[o].funder : o \in Range(result.holder_funder_map.keys)}

HoldersFundedBy(f) ==
  {o \in Range(result.holder_funder_map.keys) : result.holder_funder_map.at[o].funder = f}

ClustersFor(f) == {i \in 1..Len(result.clusters) : result.clusters[i].funder = f}

WalletsOf(c) == {c.holders[j].wallet : j \in 1..Len(c.holders)}

\* C14: a funder has a cluster exactly when it is the recorded, non-excluded
\* funder of three or more distinct holders; it then has one cluster only,
\* which lists exactly those holders, each once.
C14_ClusterIffThreeHolders ==
  ClusterDone =>
    \A f \in RecordedFunders \cup {result.clusters[i].funder : i \in 1..Len(result.clusters)} :
      /\ ClustersFor(f) # {}
           <=> (f \notin EXCLUDED_FUNDRS /\ Cardinality(HoldersFundedBy(f)) >= 3)
      /\ Cardinality(ClustersFor(f)) <= 1
      /\ \A i \in ClustersFor(f) :
           /\ WalletsOf(result.clusters[i]) = HoldersFundedBy(f)
           /\ Len(result.clusters[i].holders) = Cardinality(HoldersFundedBy(f))
           /\ result.clusters[i].holder_count = Cardinality(HoldersFundedBy(f))

\* three holders funded by F and two by G: one cluster, of F
C14_ThreeByFTwoByG ==
  /\ ClusterDone
  /\ Len(holders) = 5
  /\ Cardinality(HoldersFundedBy("FunderF")) = 3
  /\ Cardinality(HoldersFundedBy("FunderG")) = 2
  /\ Len(result.clusters) = 1
  /\ result.clusters[1].funder = "FunderF"

CabalScored == pc = "returned" /\ pending = {}

\* S in hundredths of a percent, the number of distinct holders in a cluster
\* and the number of holders with a known funder
SumOfCombined == IntSum([i \in 1..Len(clusters) |-> clusters[i].combined_supply_pct])
InCluster     == Cardinality(CabalHolders(clusters))
WithFunder    == Len(holder_funder_map.keys)

ScoreOf(a, b) == Min(100, Min(Len(clusters) * 10, 30) + Min(a, 40) + Min(b, 30))

\* C15 as stated: the score is min(100, min(10 count, 30) + min(A, 40) +
\* min(B, 30)) where A is S * 1.5 and B is R * 30, each rounded to the nearest
\* integer (at most a half away from it).
C15_RoundedScore ==
  CabalScored =>
    \E a \in 0..200, b \in 0..30 :
      /\ 200 * a - 100 <= 3 * SumOfCombined /\ 3 * SumOfCombined <= 200 * a + 100
      /\ IF WithFunder = 0 THEN b = 0
         ELSE /\ 2 * WithFunder * b - WithFunder <= 60 * InCluster
              /\ 60 * InCluster <= 2 * WithFunder * b + WithFunder
      /\ result.cabal_probability = ScoreOf(a, b)

\* the double S * 1.5 of the double S that sum() returns
ProductOfSum ==
  SMul(FSum([i \in 1..Len(clusters) |-> ClusterPct(clusters[i].combined_supply_pct)]),
       OneAndAHalf)

\* the integers next to the exact product of 1.5 and the sum of the rounded
\* percentages
NearProduct ==
  {k \in {(3 * SumOfCombined) \div 200 - 1, (3 * SumOfCombined) \div 200,
          (3 * SumOfCombined) \div 200 + 1} : k >= 0}

\* C15 amended: the score is min(100, min(10 count, 30) + min(A, 40) +
\* min(B, 30)) where A is the double S * 1.5 and B is R * 30, each truncated
\* toward zero; the result is in 0..100.
C15_TruncatedScore ==
  CabalScored =>
    /\ result.cabal_probability \in 0..100
    /\ \E b \in 0..30 :
         /\ IF WithFunder = 0 THEN b = 0
            ELSE WithFunder * b <= 30 * InCluster /\ 30 * InCluster < WithFunder * (b + 1)
         /\ \E a \in {k \in NearProduct : result.cabal_probability = ScoreOf(k, b)} :
              ~SLess(ProductOfSum, SFromInt(a)) /\ SLess(ProductOfSum, SFromInt(a + 1))

\* one cluster of 5.1 % among four holders with a known funder: 7.65 and
\* 22.5 are both cut down, to 7 and 22
C15_FractionsDropped ==
  /\ CabalScored
  /\ Len(clusters) = 1
  /\ clusters[1].combined_supply_pct = 510
  /\ WithFunder = 4
  /\ result.cabal_probability = 10 + 7 + 22

\* C16: the score find_wallet_clusters returns is 0 when no funder has three
\* holders, whatever the holders and the dict are, and at least 10 when some
\* funder has three.
C16_ZeroWithoutClusterTenWith ==
  ClusterDone =>
    IF \A f \in RecordedFunders : Cardinality(HoldersFundedBy(f)) < 3
    THEN result.clusters = << >> /\ result.cabal_probability = 0
    ELSE result.clusters # << >> /\ result.cabal_probability >= 10

\* five holders, four of them with a known funder, no three with the same
C16_FundersButNoCluster ==
  /\ ClusterDone
  /\ result.total_holders_scanned = 5
  /\ result.holders_with_known_funder = 4
  /\ result.cluster_count = 0
  /\ result.cabal_probability = 0

\* C17: when the top-holder fetch fails or yields no holders the run ends
\* with the single error result, which has no clusters, score or graph, and
\* no funding lookup was issued.
C17_NoHoldersSingleError ==
  (pc # "start" /\ holders = << >>) =>
    /\ pc = "done"
    /\ result = CouldNotFetch
    /\ DOMAIN result = {"error"}
    /\ pending = {}
    /\ funding_results = << >>
    /\ ledger = << >>

C17_FetchGaveNothing ==
  /\ pc = "done"
  /\ holders = << >>
  /\ result = CouldNotFetch

\* the infrastructure addresses that the ledger and the provider show
InfrastructureSeen == {SYSTEM_PROGRAM, RAYDIUM}

NotInfrastructure(f) == f \notin EXCLUDED_FUNDRS /\ f \notin InfrastructureSeen

FundedEdges == {i \in 1..Len(result.graph.edges) : result.graph.edges[i].type = "funded"}

\* C18: no funder of the dict, of a cluster, of a funder node or of a
\* 'funded' edge is an infrastructure address, and every holder has at most
\* one funding edge and is in at most one cluster.
C18_NoInfrastructureFunder ==
  ClusterDone =>
    /\ \A f \in RecordedFunders : NotInfrastructure(f)
    /\ \A i \in 1..Len(result.clusters) : NotInfrastructure(result.clusters[i].funder)
    /\ \A i \in 1..Len(result.graph.nodes) :
         result.graph.nodes[i].type \in {"funder", "cabal_funder"}
           => NotInfrastructure(result.graph.nodes[i].id)
    /\ \A i \in FundedEdges : NotInfrastructure(result.graph.edges[i].from)
    /\ \A k \in 1..Len(holders) :
         /\ Cardinality({i \in FundedEdges : result.graph.edges[i].to = holders[k].owner}) <= 1
         /\ Cardinality({i \in 1..Len(result.clusters) :
                           holders[k].owner \in WalletsOf(result.clusters[i])}) <= 1

\* the system program is the first candidate of some holder of a cluster
C18_SystemProgramPassedOver ==
  /\ ClusterDone
  /\ result.cluster_count = 1
  /\ \E k \in 1..Len(holders) :
       /\ ledger[k] # << >>
       /\ Head(ledger[k]) = SYSTEM_PROGRAM
       /\ holders[k].owner \in WalletsOf(result.clusters[1])

\* the funder each lookup finds in the ledger
FundersInLedger ==
  [i \in 1..Len(holders) |-> get_funding_wallet_result(holders[i].owner, ledger[i])]

\* C19: the lookups complete in any order, the grouping happens when all
\* have completed, and the result is that of pairing every holder with the
\* funder of its own lookup, whatever the order was.
C19_ResultIndependentOfOrder ==
  /\ pc = "lookups" => result = NoResult
  /\ ClusterDone =>
       /\ pending = {}
       /\ result.holder_funder_map = HolderFunderMap(holders, FundersInLedger)
       /\ result = ClusterResult(holders, result.holder_funder_map,
                                 Clusters(result.holder_funder_map))

\* the lookup of the first holder is the last one outstanding
C19_FirstLookupLast ==
  /\ pc = "lookups"
  /\ Len(holders) >= 3
  /\ pending = {1}
  /\ \A i \in 2..Len(holders) : funding_results[i] = "FunderF"

\* C20 as stated: no exception of a provider call escapes a scan, and a scan
\* that has returned has a risk_score and every risk label of its chain.
C20_NoExceptionEscapes ==
  /\ pc # "raised"
  /\ pc = "done" =>
       /\ report.risk_score # NotComputed
       /\ report.lp_risk # Absent
       /\ report.supply_risk # Absent
       /\ chain = "solana" => report.wallet_risk # Absent /\ report.mev_risk # Absent
       /\ chain \in EvmChains => report.holder_risk # Absent

\* ------------------------------------------------------------------------
\* Missing holder data
\* ------------------------------------------------------------------------
EmptyHolderList == chain = "solana" /\ supply_answer = "empty"

C22_UnknownNotZeroRisk ==
  (pc = "done" /\ supply_answer = "unavailable") =>
    ~(sub.ss = 0 /\ report.supply_risk = "Low")

\* ------------------------------------------------------------------------
\* Deployer rating
\* ------------------------------------------------------------------------
DevReturned == pc = "returned" /\ dev_report # NoDevReport

\* the tier a rating string of either path stands for
Tier(risk) ==
  IF risk \in {"No history found", "First deployment"} THEN "NEW"
  ELSE IF risk = "Proven dev" THEN "PROVEN"
  ELSE IF risk = "Some track record" THEN "SOME_RECORD"
  ELSE IF risk \in {"Serial launcher", "Serial deployer"} THEN "SERIAL_DEPLOYER"
  ELSE IF risk = "Low track record" THEN "LOW_RECORD"
  ELSE "none"

\* the tier of the report returned to the caller, "none" when it has no rating
ReportTier == IF "risk" \in DOMAIN dev_report THEN Tier(dev_report.risk) ELSE "none"

\* the dead tokens as each path counts them
DeadCount ==
  IF chain = "solana" THEN Len(Dead(tokens))
  ELSE Len(SelectSeq(tokens, LAMBDA t : t.market_cap = 0))

\* C23 as stated: a deployer whose best prior token reached the high
\* threshold ($500K) is rated PROVEN whatever the ratio of dead tokens, on the
\* Solana path and on the EVM path.
C23_ProvenWhateverDeadRatio ==
  (DevReturned /\ MaxCap(tokens) >= 500000) => ReportTier = "PROVEN"

\* C24 as stated: the rating is the first tier whose condition holds of NEW
\* (no prior token), PROVEN (best market cap >= $500K), SOME_RECORD
\* (>= $100K), SERIAL_DEPLOYER (dead > 70% of total and total > 2) and
\* LOW_RECORD, so a deployer without prior tokens is reported NEW.
C24_RatingPriority ==
  DevReturned =>
    LET total == Len(tokens)
        best  == MaxCap(tokens)
    IN  ReportTier = (IF total = 0 THEN "NEW"
                      ELSE IF best >= 500000 THEN "PROVEN"
                      ELSE IF best >= 100000 THEN "SOME_RECORD"
                      ELSE IF 10 * DeadCount > 7 * total /\ total > 2 THEN "SERIAL_DEPLOYER"
                      ELSE "LOW_RECORD")

\* ------------------------------------------------------------------------
\* Deployer resolution
\* ------------------------------------------------------------------------
\* the order of the sources
SourceOrder == <<"authority", "creation_tx", "explorer_api">>

\* what a source holds for the token: the address it would give when asked
Yield(source) ==
  IF chain = "solana" THEN
    IF source = "authority" THEN
      (IF answers.account = "mint_authority" THEN "MintAuthority"
       ELSE IF answers.account = "freeze_authority" THEN "FreezeAuthority"
       ELSE None)
    ELSE IF source = "creation_tx" THEN
      (IF answers.signatures = "found" /\ answers.transaction = "signer" THEN "Signer" ELSE None)
    ELSE
      (IF answers.signatures = "found" /\ answers.enhanced = "fee_payer" THEN "FeePayer"
       ELSE None)
  ELSE
    IF source = "authority" THEN None
    ELSE IF source = "creation_tx" THEN (IF answers.rpc = "from" THEN "From" ELSE None)
    ELSE (IF answers.key /\ answers.creation = "creator" THEN "Creator" ELSE None)

FirstYield ==
  IF Yield(SourceOrder[1]) # None THEN Yield(SourceOrder[1])
  ELSE IF Yield(SourceOrder[2]) # None THEN Yield(SourceOrder[2])
  ELSE Yield(SourceOrder[3])

DeployerReturned == pc = "returned" /\ answers # << >>

\* C25 as stated: the sources are tried in the order authority, creation
\* transaction, explorer API; a source is asked only if every earlier one holds
\* nothing, the result is the first address held, and it is null only if all
\* three hold nothing.
C25_FirstNonNullSource ==
  /\ answers # << >> =>
       \A i \in 1..Len(queried) : \A j \in 1..3 :
         (SourceOrder[j] = queried[i]) => \A k \in 1..(j - 1) : Yield(SourceOrder[k]) = None
  /\ DeployerReturned => deployer = FirstYield

\* ------------------------------------------------------------------------
\* Tokens of a deployer
\* ------------------------------------------------------------------------
TokensReturned == pc = "returned" /\ cutoff # 0

NoDuplicateAndInWindow ==
  /\ \A i, j \in 1..Len(deployed) : deployed[i].mint = deployed[j].mint => i = j
  /\ \A i \in 1..Len(deployed) : deployed[i].timestamp = 0 \/ deployed[i].timestamp >= cutoff

\* C26 as stated: the list returned has no two entries with the same
\* address, every entry has timestamp 0 or one inside the window, and every
\* token discovered with an unknown timestamp is in the list.
C26_UnknownNeverDropped ==
  TokensReturned =>
    /\ NoDuplicateAndInWindow
    /\ \A i \in 1..Len(token_mints) :
         token_mints[i].timestamp = 0 => \E j \in 1..Len(deployed) : deployed[j] = token_mints[i]

\* C26 amended: the list returned has no two entries with the same address,
\* every entry has timestamp 0 or one inside the window, and no token
\* discovered with an unknown timestamp is dropped by the window filter: the
\* list is the first 25, in discovery order, of the discovered tokens whose
\* timestamp is unknown or inside the window.
C26_FirstTwentyFiveOfRetained ==
  TokensReturned =>
    /\ NoDuplicateAndInWindow
    /\ LET kept == SelectSeq(token_mints, LAMBDA t : t.timestamp = 0 \/ t.timestamp >= cutoff)
       IN  /\ Len(deployed) = (IF Len(kept) <= 25 THEN Len(kept) ELSE 25)
           /\ \A i \in 1..Len(deployed) : deployed[i] = kept[i]

\* a deployer with more than 25 tokens that pass the filter, the last of
\* them with an unknown timestamp and cut off
C26_Witness ==
  /\ TokensReturned
  /\ Len(deployed) = 25
  /\ Len(token_mints) > 25
  /\ token_mints[Len(token_mints)].timestamp = 0
  /\ \A j \in 1..Len(deployed) : deployed[j].mint # token_mints[Len(token_mints)].mint
  /\ \E j \in 1..Len(deployed) : deployed[j].timestamp = 0

\* ------------------------------------------------------------------------
\* The monitors' seen sets
\* ------------------------------------------------------------------------
\* the tasks of a monitor that passed its check for a token
Passed(monitor, token) ==
  {i \in 1..Len(launches) :
     /\ launches[i].monitor = monitor
     /\ launches[i].token = token
     /\ launches[i].at \in {"enrich", "skipped", "sending", "sent"}}

\* C27: for every interleaving of launch events and their tasks, also with
\* several tasks for one token, each token passes a monitor's check against
\* its seen set at most once, each recipient is sent at most one alert per
\* token by a monitor, and a token once in a seen set is never removed.
C27_SeenSetIdempotent ==
  /\ [](launches # << >> =>
          \A m \in Monitors, t \in LaunchedTokens :
            /\ Cardinality(Passed(m, t)) <= 1
            /\ \A r \in Recipients : alerts[m, t, r] <= 1)
  /\ [][_seen_mints \subseteq _seen_mints' /\ _seen_evm \subseteq _seen_evm']_vars

\* three events for one token on the Solana monitor, their tasks alive
\* together: one passed and alerted both recipients, the others were stopped
C27_Witness ==
  /\ Len(launches) = 3
  /\ \A i \in 1..3 : launches[i].monitor = "solana" /\ launches[i].token = "TokenA"
  /\ launches[3].at = "sent"
  /\ launches[1].at = "duplicate" /\ launches[2].at = "duplicate"
  /\ alerts["solana", "TokenA", "Admin"] = 1
  /\ alerts["solana", "TokenA", "User"] = 1

\* ------------------------------------------------------------------------
\* The summary text
\* ------------------------------------------------------------------------
SummaryReturned == pc = "returned" /\ summary # NoSummaryText

\* the concerns of each path in the order of their checks
ConcernOrder ==
  IF chain = "solana"
  THEN <<"high fresh wallet activity", "coordinated buying patterns detected",
         "critically low liquidity - rug risk very high", "low liquidity",
         "single wallet holds of supply", "top 10 wallets hold of supply",
         "sandwich attack patterns detected", "suspected bot wallet(s) active">>
  ELSE <<"critically low liquidity", "low liquidity", "single wallet holds of supply",
         "top 10 hold of supply">>

\* the place of a concern in the order
PlaceOf(concern) == CHOOSE k \in 1..Len(ConcernOrder) : ConcernOrder[k] = concern

\* C28 as stated: each threshold trigger contributes at most one concern,
\* the concerns come in a fixed order, and whenever there is a concern the
\* text has as many advisory sentences as concerns.
C28_AdvisoryPerConcern ==
  SummaryReturned =>
    /\ \A i \in 1..Len(summary.flags) : \E k \in 1..Len(ConcernOrder) :
         ConcernOrder[k] = summary.flags[i]
    /\ \A i, j \in 1..Len(summary.flags) :
         i < j => PlaceOf(summary.flags[i]) < PlaceOf(summary.flags[j])
    /\ summary.flags # << >> => Len(summary.action) = Len(summary.flags)

\* ------------------------------------------------------------------------
\* The watchlist
\* ------------------------------------------------------------------------
RunFinished == pc = "saved"

AlertsFor(e) == {a \in watch_alerts : a.entry = e}

\* C29: in one run an alert is produced for a watched user and token if and
\* only if its re-scan succeeded, a last_score was stored and the new score
\* differs from it by 15 or more; after a successful re-scan the stored
\* last_score is the new score, in the dict at once and in the file after the
\* run, so a first scan never alerts and the next run compares against this
\* scan.
C29_AlertIffChangedBy15 ==
  (pc \in {"scanning", "saved"}) =>
    \A e \in Entries :
      /\ AlertsFor(e) # {} <=>
           /\ loaded[e].watched
           /\ rescans[e] \in WatchScores
           /\ loaded[e].last_score # NoScore
           /\ \/ rescans[e] - loaded[e].last_score >= 15
              \/ loaded[e].last_score - rescans[e] >= 15
      /\ \A a \in AlertsFor(e) : a.previous = loaded[e].last_score /\ a.now = rescans[e]
      /\ rescans[e] \in WatchScores => data[e].last_score = rescans[e]
      /\ (RunFinished /\ changes[e] = "none") => watchlist_file[e] = data[e]

\* a finished run with a drop of 15 alerted for one user and a first scan
\* without alert for the other
C29_Witness ==
  /\ RunFinished
  /\ loaded[<<"UserA", "TokenA">>] = Watched(35)
  /\ rescans[<<"UserA", "TokenA">>] = 20
  /\ AlertsFor(<<"UserA", "TokenA">>) # {}
  /\ loaded[<<"UserB", "TokenA">>] = Watched(NoScore)
  /\ rescans[<<"UserB", "TokenA">>] = 35
  /\ AlertsFor(<<"UserB", "TokenA">>) = {}
  /\ watchlist_file[<<"UserB", "TokenA">>] = Watched(35)

\* C30 as stated: an add or a remove that completed while a run of
\* check_watchlist_alerts was in progress is still reflected in the file
\* after the run has finished.
C30_ChangesNeverLost ==
  RunFinished =>
    \A e \in Entries :
      /\ changes[e] = "added" => watchlist_file[e].watched
      /\ changes[e] = "removed" => ~watchlist_file[e].watched


============================================================================
